---- MODULE Spec2Model ----
(***************************************************************************)
(* Service-category questionnaire subsystem of the home-services admin     *)
(* console: the questionnaire editor screen, the service-categories screen *)
(* and the service-categories admin service over the document store.       *)
(*                                                                         *)
(* Conventions                                                             *)
(*  - A text is a sequence of one-character strings, so that               *)
(*    String.prototype.trim is computed and not assumed.                   *)
(*  - A JavaScript object is a function whose DOMAIN is the set of keys    *)
(*    that hold a value.  For the optional fields of a question the code   *)
(*    never tests key presence (it reads q.options || [] and the like) and *)
(*    the store drops undefined-valued keys, so "key: undefined" and "no   *)
(*    key" are the same function here.  For the patch handed to            *)
(*    updateServiceCategory the two differ in the source text and are kept *)
(*    apart (see IsUndefined).                                             *)
(*  - Array positions are 1-based; NULL is the null editing index.         *)
(***************************************************************************)
EXTENDS Integers, Sequences, FiniteSets, TLC

(***************************************************************************)
(* Bounds                                                                  *)
(***************************************************************************)
\* Largest value the millisecond clock (Date.now()) takes.
MaxClock == 2

\* Longest question list the editor is driven to.
MaxQuestions == 2

\* Longest option list the form is driven to, in either language.
MaxOptions == 2

(***************************************************************************)
(* Texts                                                                   *)
(***************************************************************************)
SPACE == " "

EmptyText == <<>>

RECURSIVE TrimStart(_)
TrimStart(s) ==
  IF s = <<>> THEN <<>>
  ELSE IF Head(s) = SPACE THEN TrimStart(Tail(s))
  ELSE s

RECURSIVE TrimEnd(_)
TrimEnd(s) ==
  IF s = <<>> THEN <<>>
  ELSE IF s[Len(s)] = SPACE THEN TrimEnd(SubSeq(s, 1, Len(s) - 1))
  ELSE s

\* String.prototype.trim
Trim(s) == TrimEnd(TrimStart(s))

\* Array.prototype.includes
Includes(list, x) == \E i \in 1..Len(list) : list[i] = x

\* list.filter((_, i) => i !== index)
RemoveAt(list, index) ==
  [i \in 1..(Len(list) - 1) |-> IF i < index THEN list[i] ELSE list[i + 1]]

\* An object with no keys.
EmptyObject == [k \in {} |-> TRUE]

\* "key: cond ? value : undefined" of an object literal.
OptionalField(key, value, present) ==
  IF present THEN key :> value ELSE EmptyObject

\* obj.key || dflt, for a key whose values are texts or lists
Field(obj, key, dflt) == IF key \in DOMAIN obj THEN obj[key] ELSE dflt

(***************************************************************************)
(* Question definition model                                               *)
(***************************************************************************)
QUESTION_TYPES == {"text", "number", "select", "multiselect", "boolean"}

\* A variant in which only the single-choice type is option-based.
IsSelectOnly(t) == t = "select"

IsOptionType(t) == t = "select" \/ t = "multiselect"

NULL == 0


(***************************************************************************)
(* Questionnaire editor screen: state                                      *)
(***************************************************************************)
VARIABLES
  questions,      \* working copy of the questionnaire
  editingIndex,   \* position being edited, or NULL
  question,       \* form: English question
  questionHi,     \* form: Hindi question
  type,           \* form: answer type
  required,       \* form: required flag
  placeholder,    \* form: English placeholder
  placeholderHi,  \* form: Hindi placeholder
  options,        \* form: English options
  optionsHi,      \* form: Hindi options
  optionInput,    \* form: English option text box
  optionInputHi,  \* form: Hindi option text box
  alert,          \* the native alert on screen, if any
  now,            \* Date.now()
  \* the store and the service-categories screen
  store,              \* serviceCategories collection: document id -> document
  nextDocId,          \* next auto-generated document id
  categories,         \* list shown on the screen
  loading,
  showAddModal,
  showEditModal,
  editingCategory,    \* the list item being edited, or NoCategory
  name,
  icon,
  color,
  description,
  isActive,
  order,
  requiresVehicle,
  questionnaire,
  saving,
  pendingModalReopen,
  alertModal,
  screen,             \* which screen of the navigator has the focus
  saveCall,           \* the add/update call handleSave is awaiting
  loadCalls,          \* the fetches loadCategories is awaiting
  deleteCalls,        \* the deletes the confirmed delete prompts are awaiting
  \* the other screens of the navigator and what they read
  language,           \* useStore().language
  detailsCategory,    \* route.params.category of the category details screen
  rendered,           \* what renderQuestionnaireSection drew last
  providers,          \* provider approvals screen: the last snapshot
  filter,             \* provider approvals screen: the selected tab
  users,              \* users collection: lower-case email -> document
  login,              \* admin login screen: the Google sign-in under way
  currentUser         \* useStore().currentUser

formVars == <<question, questionHi, type, required, placeholder, placeholderHi,
              options, optionsHi, optionInput, optionInputHi>>

editorVars == <<questions, editingIndex, formVars, alert, now>>

categoryFormVars == <<name, icon, color, description, isActive, order,
                      requiresVehicle, questionnaire>>

detailsVars == <<language, detailsCategory, rendered>>

approvalsVars == <<providers, filter>>

loginVars == <<users, login, currentUser>>

appVars == <<detailsVars, approvalsVars, loginVars>>

categoryScreenVars == <<store, nextDocId, categories, loading, showAddModal,
                        showEditModal, editingCategory, categoryFormVars, saving,
                        pendingModalReopen, alertModal, saveCall, loadCalls,
                        deleteCalls>>

categoryVars == <<categoryScreenVars, screen, appVars>>

vars == <<editorVars, categoryVars>>

NoAlert == [kind |-> "none"]

\* What the operator types into the text boxes of the form.
QuestionInputs == {<<SPACE>>, <<"Q", SPACE>>}
QuestionHiInputs == {<<>>, <<"H">>}
PlaceholderInputs == {<<"p">>}
PlaceholderHiInputs == {<<"h">>}
LETTERS == <<"A", "a", "B", "C">>
LETTERS_HI == <<"W", "X", "Y", "Z">>
OptionInputs == {<<LETTERS[i]>> : i \in 1..MaxOptions} \cup {<<SPACE, LETTERS[1]>>}
OptionHiInputs == {<<LETTERS_HI[i]>> : i \in 1..MaxOptions}

\* The narrower inputs of the runs over whole question lists.
ListQuestionInputs == {<<SPACE>>, <<"Q", SPACE>>}
ListTypeInputs == {"text", "select", "multiselect"}
ListOptionInputs == {<<"A">>}

\* route.params.questionnaire: what the category form hands to the editor.
StoredSelect ==
  [id |-> 0, question |-> <<"Q">>, type |-> "select", required |-> TRUE,
   options |-> <<<<"A">>>>]

StoredText ==
  [id |-> 0, question |-> <<"Q">>, type |-> "text", required |-> FALSE,
   questionHi |-> <<"H">>, placeholder |-> <<"p">>]

RouteQuestionnaires == {<<>>, <<StoredSelect>>, <<StoredText>>}

\* Date.now() when the screen opens: later than every stored id.
InitialNow == 1

\* The editor screen right after construction over route.params.questionnaire.
EditorConstructed(routeQuestionnaire) ==
  /\ questions = routeQuestionnaire
  /\ editingIndex = NULL
  /\ question = EmptyText
  /\ questionHi = EmptyText
  /\ type = "text"
  /\ required = TRUE
  /\ placeholder = EmptyText
  /\ placeholderHi = EmptyText
  /\ options = <<>>
  /\ optionsHi = <<>>
  /\ optionInput = EmptyText
  /\ optionInputHi = EmptyText
  /\ alert = NoAlert
  /\ now = InitialNow

(***************************************************************************)
(* Questionnaire editor screen: handlers                                   *)
(***************************************************************************)
\* The native alert is modal: no control of the screen reacts while it shows.
Interactive == screen = "editor" /\ alert = NoAlert

OptionsShown == IsOptionType(type)

OptionsHiShown == OptionsShown /\ Trim(questionHi) # EmptyText

resetForm ==
  /\ question' = EmptyText
  /\ questionHi' = EmptyText
  /\ type' = "text"
  /\ required' = TRUE
  /\ placeholder' = EmptyText
  /\ placeholderHi' = EmptyText
  /\ options' = <<>>
  /\ optionsHi' = <<>>
  /\ optionInput' = EmptyText
  /\ optionInputHi' = EmptyText
  /\ editingIndex' = NULL

\* The Cancel button of the form, shown while an entry is being edited.
CancelEdit ==
  /\ Interactive
  /\ editingIndex # NULL
  /\ resetForm
  /\ UNCHANGED <<questions, alert, now>>
  /\ UNCHANGED categoryVars

\* A variant of the delete button that removes the question at once.
handleDeleteUnconfirmed(index) ==
  /\ Interactive
  /\ index \in 1..Len(questions)
  /\ questions' = RemoveAt(questions, index)
  /\ IF editingIndex = index
       THEN resetForm
       ELSE UNCHANGED <<editingIndex, formVars>>
  /\ UNCHANGED <<alert, now>>
  /\ UNCHANGED categoryVars

handleEdit(index) ==
  /\ Interactive
  /\ index \in 1..Len(questions)
  /\ LET q == questions[index] IN
       /\ question' = q.question
       /\ questionHi' = Field(q, "questionHi", EmptyText)
       /\ type' = q.type
       /\ required' = q.required
       /\ placeholder' = Field(q, "placeholder", EmptyText)
       /\ placeholderHi' = Field(q, "placeholderHi", EmptyText)
       /\ options' = Field(q, "options", <<>>)
       /\ optionsHi' = Field(q, "optionsHi", <<>>)
  /\ editingIndex' = index
  /\ UNCHANGED <<questions, optionInput, optionInputHi, alert, now>>
  /\ UNCHANGED categoryVars

handleDelete(index) ==
  /\ Interactive
  /\ index \in 1..Len(questions)
  /\ alert' = [kind |-> "confirmDelete", index |-> index]
  /\ UNCHANGED <<questions, editingIndex, formVars, now>>
  /\ UNCHANGED categoryVars

\* "Cancel" of the delete alert.
CancelDelete ==
  /\ alert.kind = "confirmDelete"
  /\ alert' = NoAlert
  /\ UNCHANGED <<questions, editingIndex, formVars, now>>
  /\ UNCHANGED categoryVars

\* "Delete" of the delete alert.
ConfirmDelete ==
  /\ alert.kind = "confirmDelete"
  /\ questions' = RemoveAt(questions, alert.index)
  /\ IF editingIndex = alert.index
       THEN resetForm
       ELSE UNCHANGED <<editingIndex, formVars>>
  /\ alert' = NoAlert
  /\ UNCHANGED now
  /\ UNCHANGED categoryVars

\* "OK" of an error alert.
DismissError ==
  /\ alert.kind = "error"
  /\ alert' = NoAlert
  /\ UNCHANGED <<questions, editingIndex, formVars, now>>
  /\ UNCHANGED categoryVars

ErrorAlert(message) == [kind |-> "error", message |-> message]

\* A variant of the object literal that pads the Hindi options with the English
\* ones up to the length of the English list.
NewQuestionPadded(id) ==
  [id |-> id, question |-> Trim(question), type |-> type, required |-> required]
    @@ OptionalField("questionHi", Trim(questionHi), Trim(questionHi) # EmptyText)
    @@ OptionalField("placeholder", Trim(placeholder), Trim(placeholder) # EmptyText)
    @@ OptionalField("placeholderHi", Trim(placeholderHi), Trim(placeholderHi) # EmptyText)
    @@ OptionalField("options", options, IsOptionType(type))
    @@ OptionalField("optionsHi",
         IF Len(optionsHi) < Len(options)
           THEN optionsHi \o SubSeq(options, Len(optionsHi) + 1, Len(options))
           ELSE optionsHi,
         type = "select"
           \/ (type = "multiselect" /\ Trim(questionHi) # EmptyText /\ Len(optionsHi) > 0))

\* The object literal built by handleAddOrUpdateQuestion.
NewQuestion(id) ==
  [id |-> id, question |-> Trim(question), type |-> type, required |-> required]
    @@ OptionalField("questionHi", Trim(questionHi), Trim(questionHi) # EmptyText)
    @@ OptionalField("placeholder", Trim(placeholder), Trim(placeholder) # EmptyText)
    @@ OptionalField("placeholderHi", Trim(placeholderHi), Trim(placeholderHi) # EmptyText)
    @@ OptionalField("options", options, IsOptionType(type))
    @@ OptionalField("optionsHi", optionsHi,
         type = "select"
           \/ (type = "multiselect" /\ Trim(questionHi) # EmptyText /\ Len(optionsHi) > 0))

\* A variant of the validations without the rule on the Hindi options.
ValidationErrorWithoutHindiRule ==
  IF Trim(question) = EmptyText THEN "Please enter a question in English (required)"
  ELSE IF IsOptionType(type) /\ Len(options) = 0 THEN "Please add at least one option in English"
  ELSE "ok"

\* A variant of the validations that also refuses Hindi options without a
\* Hindi question.
ValidationErrorStrict ==
  IF Trim(question) = EmptyText THEN "Please enter a question in English (required)"
  ELSE IF IsOptionType(type) /\ Len(options) = 0 THEN "Please add at least one option in English"
  ELSE IF IsOptionType(type) /\ Trim(questionHi) # EmptyText /\ Len(optionsHi) = 0
    THEN "Please add Hindi options if Hindi question is provided"
  ELSE IF Len(optionsHi) > 0 /\ Trim(questionHi) = EmptyText
    THEN "Please enter the Hindi question for the Hindi options"
  ELSE "ok"

\* Which validation of handleAddOrUpdateQuestion rejects the form, if any.
ValidationError ==
  IF Trim(question) = EmptyText THEN "Please enter a question in English (required)"
  ELSE IF IsOptionType(type) /\ Len(options) = 0 THEN "Please add at least one option in English"
  ELSE IF IsOptionType(type) /\ Trim(questionHi) # EmptyText /\ Len(optionsHi) = 0
    THEN "Please add Hindi options if Hindi question is provided"
  ELSE "ok"

\* A variant of the submit handler that clears the form also when it rejects
\* it.
handleAddOrUpdateQuestionResetting ==
  /\ Interactive
  /\ IF ValidationError # "ok"
       THEN /\ alert' = ErrorAlert(ValidationError)
            /\ resetForm
            /\ UNCHANGED <<questions, now>>
     ELSE IF editingIndex # NULL /\ editingIndex > Len(questions)
       THEN /\ alert' = [kind |-> "fatal"]
            /\ UNCHANGED <<questions, editingIndex, formVars, now>>
     ELSE IF editingIndex # NULL
       THEN /\ questions' = [questions EXCEPT
                               ![editingIndex] = NewQuestion(questions[editingIndex].id)]
            /\ resetForm
            /\ UNCHANGED <<alert, now>>
     ELSE /\ Len(questions) < MaxQuestions
          /\ questions' = Append(questions, NewQuestion(now))
          /\ resetForm
          /\ UNCHANGED <<alert, now>>
  /\ UNCHANGED categoryVars

\* A variant of the submit handler that appends also while an entry is edited.
handleAddOrUpdateQuestionAppending ==
  /\ Interactive
  /\ IF ValidationError # "ok"
       THEN /\ alert' = ErrorAlert(ValidationError)
            /\ UNCHANGED <<questions, editingIndex, formVars, now>>
       ELSE /\ Len(questions) < MaxQuestions
            /\ questions' = Append(questions, NewQuestion(now))
            /\ resetForm
            /\ UNCHANGED <<alert, now>>
  /\ UNCHANGED categoryVars

handleAddOrUpdateQuestion ==
  /\ Interactive
  /\ IF ValidationError # "ok"
       THEN /\ alert' = ErrorAlert(ValidationError)
            /\ UNCHANGED <<questions, editingIndex, formVars, now>>
     ELSE IF editingIndex # NULL /\ editingIndex > Len(questions)
       \* questions[editingIndex] is undefined: reading .id throws
       THEN /\ alert' = [kind |-> "fatal"]
            /\ UNCHANGED <<questions, editingIndex, formVars, now>>
     ELSE IF editingIndex # NULL
       THEN /\ questions' = [questions EXCEPT
                               ![editingIndex] = NewQuestion(questions[editingIndex].id)]
            /\ resetForm
            /\ UNCHANGED <<alert, now>>
     ELSE /\ Len(questions) < MaxQuestions
          /\ questions' = Append(questions, NewQuestion(now))
          /\ resetForm
          /\ UNCHANGED <<alert, now>>
  /\ UNCHANGED categoryVars

\* A variant of the add handler that looks for the label as typed, untrimmed.
handleAddOptionUntrimmed ==
  /\ Interactive
  /\ OptionsShown
  /\ Trim(optionInput) # EmptyText
  /\ IF Includes(options, optionInput)
       THEN /\ alert' = ErrorAlert("This option already exists")
            /\ UNCHANGED <<options, optionInput>>
       ELSE /\ Len(options) < MaxOptions
            /\ options' = Append(options, Trim(optionInput))
            /\ optionInput' = EmptyText
            /\ UNCHANGED alert
  /\ UNCHANGED <<questions, editingIndex, question, questionHi, type, required,
                 placeholder, placeholderHi, optionsHi, optionInputHi, now>>
  /\ UNCHANGED categoryVars

handleAddOption ==
  /\ Interactive
  /\ OptionsShown
  /\ Trim(optionInput) # EmptyText
  /\ IF Includes(options, Trim(optionInput))
       THEN /\ alert' = ErrorAlert("This option already exists")
            /\ UNCHANGED <<options, optionInput>>
       ELSE /\ Len(options) < MaxOptions
            /\ options' = Append(options, Trim(optionInput))
            /\ optionInput' = EmptyText
            /\ UNCHANGED alert
  /\ UNCHANGED <<questions, editingIndex, question, questionHi, type, required,
                 placeholder, placeholderHi, optionsHi, optionInputHi, now>>
  /\ UNCHANGED categoryVars

handleAddOptionHi ==
  /\ Interactive
  /\ OptionsHiShown
  /\ Trim(optionInputHi) # EmptyText
  /\ IF Includes(optionsHi, Trim(optionInputHi))
       THEN /\ alert' = ErrorAlert("This Hindi option already exists")
            /\ UNCHANGED <<optionsHi, optionInputHi>>
       ELSE /\ Len(optionsHi) < MaxOptions
            /\ optionsHi' = Append(optionsHi, Trim(optionInputHi))
            /\ optionInputHi' = EmptyText
            /\ UNCHANGED alert
  /\ UNCHANGED <<questions, editingIndex, question, questionHi, type, required,
                 placeholder, placeholderHi, options, optionInput, now>>
  /\ UNCHANGED categoryVars

\* A variant of the remove handler that leaves the Hindi options alone.
handleRemoveOptionPrimaryOnly(index) ==
  /\ Interactive
  /\ OptionsShown
  /\ index \in 1..Len(options)
  /\ options' = RemoveAt(options, index)
  /\ UNCHANGED <<questions, editingIndex, question, questionHi, type, required,
                 placeholder, placeholderHi, optionsHi, optionInput, optionInputHi,
                 alert, now>>
  /\ UNCHANGED categoryVars

handleRemoveOption(index) ==
  /\ Interactive
  /\ OptionsShown
  /\ index \in 1..Len(options)
  /\ options' = RemoveAt(options, index)
  /\ optionsHi' = IF Len(optionsHi) >= index THEN RemoveAt(optionsHi, index) ELSE optionsHi
  /\ UNCHANGED <<questions, editingIndex, question, questionHi, type, required,
                 placeholder, placeholderHi, optionInput, optionInputHi, alert, now>>
  /\ UNCHANGED categoryVars

handleRemoveOptionHi(index) ==
  /\ Interactive
  /\ OptionsHiShown
  /\ index \in 1..Len(optionsHi)
  /\ optionsHi' = RemoveAt(optionsHi, index)
  /\ UNCHANGED <<questions, editingIndex, question, questionHi, type, required,
                 placeholder, placeholderHi, options, optionInput, optionInputHi,
                 alert, now>>
  /\ UNCHANGED categoryVars

\* The bound text boxes, type chips and switch of the form.
setQuestion(text) ==
  /\ Interactive
  /\ question' = text
  /\ UNCHANGED <<questions, editingIndex, questionHi, type, required, placeholder,
                 placeholderHi, options, optionsHi, optionInput, optionInputHi,
                 alert, now>>
  /\ UNCHANGED categoryVars

setQuestionHi(text) ==
  /\ Interactive
  /\ questionHi' = text
  /\ UNCHANGED <<questions, editingIndex, question, type, required, placeholder,
                 placeholderHi, options, optionsHi, optionInput, optionInputHi,
                 alert, now>>
  /\ UNCHANGED categoryVars

setType(t) ==
  /\ Interactive
  /\ type' = t
  /\ UNCHANGED <<questions, editingIndex, question, questionHi, required, placeholder,
                 placeholderHi, options, optionsHi, optionInput, optionInputHi,
                 alert, now>>
  /\ UNCHANGED categoryVars

setRequired(value) ==
  /\ Interactive
  /\ required' = value
  /\ UNCHANGED <<questions, editingIndex, question, questionHi, type, placeholder,
                 placeholderHi, options, optionsHi, optionInput, optionInputHi,
                 alert, now>>
  /\ UNCHANGED categoryVars

setPlaceholder(text) ==
  /\ Interactive
  /\ placeholder' = text
  /\ UNCHANGED <<questions, editingIndex, question, questionHi, type, required,
                 placeholderHi, options, optionsHi, optionInput, optionInputHi,
                 alert, now>>
  /\ UNCHANGED categoryVars

setPlaceholderHi(text) ==
  /\ Interactive
  /\ placeholderHi' = text
  /\ UNCHANGED <<questions, editingIndex, question, questionHi, type, required,
                 placeholder, options, optionsHi, optionInput, optionInputHi,
                 alert, now>>
  /\ UNCHANGED categoryVars

setOptionInput(text) ==
  /\ Interactive
  /\ OptionsShown
  /\ optionInput' = text
  /\ UNCHANGED <<questions, editingIndex, question, questionHi, type, required,
                 placeholder, placeholderHi, options, optionsHi, optionInputHi,
                 alert, now>>
  /\ UNCHANGED categoryVars

setOptionInputHi(text) ==
  /\ Interactive
  /\ OptionsHiShown
  /\ optionInputHi' = text
  /\ UNCHANGED <<questions, editingIndex, question, questionHi, type, required,
                 placeholder, placeholderHi, options, optionsHi, optionInput,
                 alert, now>>
  /\ UNCHANGED categoryVars

\* A millisecond passes.
Tick ==
  /\ now < MaxClock
  /\ now' = now + 1
  /\ UNCHANGED <<questions, editingIndex, formVars, alert>>
  /\ UNCHANGED categoryVars

(***************************************************************************)
(* Service categories admin service over the document store                *)
(*                                                                         *)
(* An argument object of the service is [fields, undefinedKeys]: fields    *)
(* maps the keys that hold a value, undefinedKeys are the keys written     *)
(* "key: undefined".  Reading obj.key gives undefined for a key of neither *)
(* part and for a key of undefinedKeys alike.                              *)
(***************************************************************************)
Without(obj, keys) == [k \in DOMAIN obj \ keys |-> obj[k]]

\* {...obj, key: value}
WithField(obj, key, value) ==
  [fields |-> (key :> value) @@ obj.fields,
   undefinedKeys |-> obj.undefinedKeys \ {key}]

\* obj.key === undefined
IsUndefined(obj, key) == key \notin DOMAIN obj.fields

\* the object literal passed to add() by addServiceCategory
AddData(category) ==
  WithField(WithField(category, "createdAt", now), "updatedAt", now)

\* A variant of updateData without the deletion rule: the plain merge of the
\* patch.
UpdateDataPlain(updates) ==
  LET updateData == WithField(updates, "updatedAt", now)
  IN [fields |-> updateData.fields,
      undefinedKeys |-> updateData.undefinedKeys,
      deletes |-> {}]

\* updateData of updateServiceCategory: the object passed to update() and
\* the keys set to firestore.FieldValue.delete()
UpdateData(updates) ==
  LET updateData == WithField(updates, "updatedAt", now)
      clear == \/ IsUndefined(updates, "questionnaire")
               \/ updates.fields["questionnaire"] = <<>>
  IN IF clear
       THEN [fields |-> Without(updateData.fields, {"questionnaire"}),
             undefinedKeys |-> updateData.undefinedKeys \ {"questionnaire"},
             deletes |-> {"questionnaire"}]
       ELSE [fields |-> updateData.fields,
             undefinedKeys |-> updateData.undefinedKeys,
             deletes |-> {}]

\* collection.add(data): the document written; the native serializer skips
\* the keys whose value is undefined
AddedDocument(data) == data.fields

\* A variant of the update that merges a list field with the stored list
\* instead of replacing it.
UpdatedDocumentMerging(doc, data) ==
  LET merged ==
        IF "questionnaire" \in DOMAIN doc /\ "questionnaire" \in DOMAIN data.fields
          THEN ("questionnaire" :> (doc["questionnaire"] \o data.fields["questionnaire"]))
                 @@ data.fields
          ELSE data.fields
  IN Without(merged @@ doc, data.deletes)

\* doc.update(data): the given fields replace the stored ones as a whole,
\* the other stored fields stay, the deleted keys go
UpdatedDocument(doc, data) == Without(data.fields @@ doc, data.deletes)

\* insertion of x into a list sorted by order, then by document id
RECURSIVE InsertByOrder(_, _)
InsertByOrder(list, x) ==
  IF list = <<>> THEN <<x>>
  ELSE IF \/ x.order < Head(list).order
          \/ (x.order = Head(list).order /\ x.id < Head(list).id)
    THEN <<x>> \o list
  ELSE <<Head(list)>> \o InsertByOrder(Tail(list), x)

\* what fetchAllServiceCategories returns for the documents of ids
RECURSIVE FetchedList(_, _)
FetchedList(docs, ids) ==
  IF ids = {} THEN <<>>
  ELSE LET id == CHOOSE x \in ids : TRUE
       IN InsertByOrder(FetchedList(docs, ids \ {id}), ("id" :> id) @@ docs[id])

fetchAllServiceCategories == FetchedList(store, DOMAIN store)

(***************************************************************************)
(* Service categories screen: state                                        *)
(***************************************************************************)
\* Number of categories ever created in the store.
MaxCategories == 1

NoCategory == [id |-> 0]

NoCall == [status |-> "none"]

\* The reasons for which the store rejects a write.
StoreErrors == {"unavailable", "permission-denied"}

\* What the catch block of the add, update and delete functions of the
\* service throws, after console.error of the error it caught:
\* new Error('Failed to ... service category')
ServiceError(op) ==
  [message |-> IF op = "add" THEN "Failed to add service category"
               ELSE IF op = "update" THEN "Failed to update service category"
               ELSE "Failed to delete service category"]

DIGITS == <<"0", "1", "2", "3", "4", "5", "6", "7", "8", "9">>

IsDigit(c) == \E d \in 1..10 : DIGITS[d] = c

DigitValue(c) == (CHOOSE d \in 1..10 : DIGITS[d] = c) - 1

NaN == -1

\* parseInt(text, 10) of an unsigned text: the value of the leading digits
RECURSIVE ParseDigits(_, _)
ParseDigits(s, acc) ==
  IF s = <<>> \/ ~IsDigit(Head(s)) THEN acc
  ELSE ParseDigits(Tail(s), 10 * acc + DigitValue(Head(s)))

ParseInt(text) ==
  LET s == TrimStart(text)
  IN IF s = <<>> \/ ~IsDigit(Head(s)) THEN NaN ELSE ParseDigits(s, 0)

\* String(n) for 0 <= n <= 9
ToText(n) == <<DIGITS[n + 1]>>

HiddenAlert == [visible |-> FALSE, type |-> "info", title |-> "", message |-> ""]

\* showAlert(title, message, undefined, type)
ShownAlert(title, message, alertType) ==
  [visible |-> TRUE, type |-> alertType, title |-> title, message |-> message]

NoUser == [id |-> 0]

\* The administrator signed in while the category screens are in use.
SignedInAdmin == [id |-> 1, email |-> "jobforsandeep2025@gmail.com", role |-> "admin"]

NoUsers == [email \in {} |-> [id |-> 0, role |-> "customer"]]

\* The details screen before it is opened; the language of a new install.
DetailsUnmounted ==
  /\ language = "en"
  /\ detailsCategory = NoCategory
  /\ rendered = <<>>

\* The approvals screen before it is mounted.
ApprovalsUnmounted ==
  /\ providers = <<>>
  /\ filter = "pending"

\* The login screen left behind by an administrator who has signed in.
LoginUnmounted ==
  /\ users = NoUsers
  /\ login = [pc |-> "idle"]
  /\ currentUser = SignedInAdmin

OtherScreensIdle ==
  /\ DetailsUnmounted
  /\ ApprovalsUnmounted
  /\ LoginUnmounted

\* The category screen before it is mounted: the initial values of its
\* useState hooks, and no call under way.
CategoryScreenUnmounted ==
  /\ store = [id \in {} |-> NoCategory]
  /\ nextDocId = 1
  /\ categories = <<>>
  /\ loading = TRUE
  /\ showAddModal = FALSE
  /\ showEditModal = FALSE
  /\ editingCategory = NoCategory
  /\ name = EmptyText
  /\ icon = "handyman"
  /\ color = "#FF9500"
  /\ description = EmptyText
  /\ isActive = TRUE
  /\ order = <<"1">>
  /\ requiresVehicle = FALSE
  /\ questionnaire = <<>>
  /\ saving = FALSE
  /\ pendingModalReopen = "null"
  /\ alertModal = HiddenAlert
  /\ saveCall = NoCall
  /\ loadCalls = <<>>
  /\ deleteCalls = <<>>

\* The screen right after it is mounted: the mount effect has called
\* loadCategories and the fetch is on its way.
CategoryScreenMounted ==
  /\ nextDocId = Cardinality(DOMAIN store) + 1
  /\ categories = <<>>
  /\ loading = TRUE
  /\ showAddModal = FALSE
  /\ showEditModal = FALSE
  /\ editingCategory = NoCategory
  /\ name = EmptyText
  /\ icon = "handyman"
  /\ color = "#FF9500"
  /\ description = EmptyText
  /\ isActive = TRUE
  /\ order = <<"1">>
  /\ requiresVehicle = FALSE
  /\ questionnaire = <<>>
  /\ saving = FALSE
  /\ pendingModalReopen = "null"
  /\ alertModal = HiddenAlert
  /\ screen = "categories"
  /\ saveCall = NoCall
  /\ loadCalls = <<[status |-> "pending"]>>
  /\ deleteCalls = <<>>
  /\ OtherScreensIdle

(***************************************************************************)
(* Service categories screen: handlers                                     *)
(***************************************************************************)
\* While loading the screen renders the spinner only; the alert modal lies
\* over everything else.
ScreenInteractive == screen = "categories" /\ ~loading /\ ~alertModal.visible

ModalShown == showAddModal \/ showEditModal

\* loadCategories up to its await
loadCategories ==
  /\ loading' = TRUE
  /\ loadCalls' = Append(loadCalls, [status |-> "pending"])

\* the store answers a fetch
StoreFetch(i) ==
  /\ i \in 1..Len(loadCalls)
  /\ loadCalls[i].status = "pending"
  /\ loadCalls' = [loadCalls EXCEPT
                     ![i] = [status |-> "resolved", data |-> fetchAllServiceCategories]]
  /\ UNCHANGED <<store, nextDocId, categories, loading, showAddModal, showEditModal,
                 editingCategory, categoryFormVars, saving, pendingModalReopen,
                 alertModal, screen, saveCall>>
  /\ UNCHANGED deleteCalls
  /\ UNCHANGED appVars
  /\ UNCHANGED editorVars

\* the store fails a fetch
StoreFetchFails(i) ==
  /\ i \in 1..Len(loadCalls)
  /\ loadCalls[i].status = "pending"
  /\ loadCalls' = [loadCalls EXCEPT ![i] = [status |-> "rejected"]]
  /\ UNCHANGED <<store, nextDocId, categories, loading, showAddModal, showEditModal,
                 editingCategory, categoryFormVars, saving, pendingModalReopen,
                 alertModal, screen, saveCall>>
  /\ UNCHANGED deleteCalls
  /\ UNCHANGED appVars
  /\ UNCHANGED editorVars

\* loadCategories after its await
loadCategoriesResume(i) ==
  /\ i \in 1..Len(loadCalls)
  /\ loadCalls[i].status # "pending"
  /\ IF loadCalls[i].status = "resolved"
       THEN /\ categories' = loadCalls[i].data
            /\ UNCHANGED alertModal
       ELSE /\ alertModal' = ShownAlert("Error", "Failed to fetch service categories", "error")
            /\ UNCHANGED categories
  /\ loading' = FALSE
  /\ loadCalls' = RemoveAt(loadCalls, i)
  /\ UNCHANGED <<store, nextDocId, showAddModal, showEditModal, editingCategory,
                 categoryFormVars, saving, pendingModalReopen, screen, saveCall>>
  /\ UNCHANGED deleteCalls
  /\ UNCHANGED appVars
  /\ UNCHANGED editorVars

\* The OK button of an alert, or the back key while it shows.  The code keeps
\* title, message and type of the hidden alert; nothing reads them before the
\* next showAlert overwrites all of them, so the hidden alert is HiddenAlert.
hideAlert ==
  /\ screen = "categories"
  /\ ~loading
  /\ alertModal.visible
  /\ alertModal' = HiddenAlert
  /\ UNCHANGED <<store, nextDocId, categories, loading, showAddModal, showEditModal,
                 editingCategory, categoryFormVars, saving, pendingModalReopen,
                 screen, saveCall, loadCalls>>
  /\ UNCHANGED deleteCalls
  /\ UNCHANGED appVars
  /\ UNCHANGED editorVars

\* Number of category deletes the store can be working on at one time.
MaxDeletes == 1

\* showAlert('Delete Category', ..., [Cancel, Delete], 'confirm') of
\* handleDelete(category): the prompt names the category, and its Delete
\* button holds category.id.  Cancel, and the back key, are hideAlert.
ShownConfirm(category) ==
  [visible |-> TRUE, type |-> "confirm", title |-> "Delete Category",
   message |-> category.name, category |-> category.id]

\* the delete button of a category of the list
handleDeleteCategory(i) ==
  /\ ScreenInteractive
  /\ ~ModalShown
  /\ i \in 1..Len(categories)
  /\ alertModal' = ShownConfirm(categories[i])
  /\ UNCHANGED <<store, nextDocId, categories, loading, showAddModal, showEditModal,
                 editingCategory, categoryFormVars, saving, pendingModalReopen,
                 screen, saveCall, loadCalls>>
  /\ UNCHANGED deleteCalls
  /\ UNCHANGED appVars
  /\ UNCHANGED editorVars

\* deleteServiceCategory(categoryId) up to the answer of the store
deleteServiceCategory(categoryId) == [status |-> "pending", id |-> categoryId]

\* The Delete button of the prompt, up to its await: hideAlert(), then the
\* call of the service.
confirmDeleteCategory ==
  /\ screen = "categories"
  /\ ~loading
  /\ alertModal.visible
  /\ alertModal.type = "confirm"
  /\ Len(deleteCalls) < MaxDeletes
  /\ alertModal' = HiddenAlert
  /\ deleteCalls' = Append(deleteCalls, deleteServiceCategory(alertModal.category))
  /\ UNCHANGED <<store, nextDocId, categories, loading, showAddModal, showEditModal,
                 editingCategory, categoryFormVars, saving, pendingModalReopen,
                 screen, saveCall, loadCalls>>
  /\ UNCHANGED appVars
  /\ UNCHANGED editorVars

\* the store performs a delete: .doc(categoryId).delete(), which succeeds
\* whether or not the document is still there
StoreDelete(i) ==
  /\ i \in 1..Len(deleteCalls)
  /\ deleteCalls[i].status = "pending"
  /\ store' = [id \in DOMAIN store \ {deleteCalls[i].id} |-> store[id]]
  /\ deleteCalls' = [deleteCalls EXCEPT ![i].status = "resolved"]
  /\ UNCHANGED <<nextDocId, categories, loading, showAddModal, showEditModal,
                 editingCategory, categoryFormVars, saving, pendingModalReopen,
                 alertModal, screen, saveCall, loadCalls>>
  /\ UNCHANGED appVars
  /\ UNCHANGED editorVars

\* the store fails a delete: the service throws
\* Error('Failed to delete service category')
StoreDeleteFails(i, cause) ==
  /\ i \in 1..Len(deleteCalls)
  /\ deleteCalls[i].status = "pending"
  /\ cause \in StoreErrors
  /\ deleteCalls' = [deleteCalls EXCEPT
                       ![i] = [status |-> "rejected", id |-> @.id,
                               error |-> ServiceError("delete")]]
  /\ UNCHANGED <<store, nextDocId, categories, loading, showAddModal, showEditModal,
                 editingCategory, categoryFormVars, saving, pendingModalReopen,
                 alertModal, screen, saveCall, loadCalls>>
  /\ UNCHANGED appVars
  /\ UNCHANGED editorVars

\* the Delete button of the prompt after its await
handleDeleteResume(i) ==
  /\ i \in 1..Len(deleteCalls)
  /\ deleteCalls[i].status # "pending"
  /\ IF deleteCalls[i].status = "resolved"
       THEN /\ alertModal' = ShownAlert("Success", "Category deleted successfully", "success")
            /\ loadCategories
       ELSE /\ alertModal' = ShownAlert("Error", deleteCalls[i].error.message, "error")
            /\ UNCHANGED <<loading, loadCalls>>
  /\ deleteCalls' = RemoveAt(deleteCalls, i)
  /\ UNCHANGED <<store, nextDocId, categories, showAddModal, showEditModal,
                 editingCategory, categoryFormVars, saving, pendingModalReopen,
                 screen, saveCall>>
  /\ UNCHANGED appVars
  /\ UNCHANGED editorVars

handleAdd ==
  /\ ScreenInteractive
  /\ ~ModalShown
  /\ Len(categories) < 9
  /\ name' = EmptyText
  /\ icon' = "handyman"
  /\ color' = "#FF9500"
  /\ description' = EmptyText
  /\ isActive' = TRUE
  /\ order' = ToText(Len(categories) + 1)
  /\ requiresVehicle' = FALSE
  /\ questionnaire' = <<>>
  /\ showAddModal' = TRUE
  /\ UNCHANGED <<store, nextDocId, categories, loading, showEditModal, editingCategory,
                 saving, pendingModalReopen, alertModal, screen, saveCall, loadCalls>>
  /\ UNCHANGED deleteCalls
  /\ UNCHANGED appVars
  /\ UNCHANGED editorVars

handleEditCategory(i) ==
  /\ ScreenInteractive
  /\ ~ModalShown
  /\ i \in 1..Len(categories)
  /\ LET category == categories[i] IN
       /\ editingCategory' = category
       /\ name' = category.name
       /\ icon' = category.icon
       /\ color' = category.color
       /\ description' = Field(category, "description", EmptyText)
       /\ isActive' = category.isActive
       /\ order' = ToText(category.order)
       /\ requiresVehicle' = Field(category, "requiresVehicle", FALSE)
       /\ questionnaire' = Field(category, "questionnaire", <<>>)
  /\ showEditModal' = TRUE
  /\ UNCHANGED <<store, nextDocId, categories, loading, showAddModal, saving,
                 pendingModalReopen, alertModal, screen, saveCall, loadCalls>>
  /\ UNCHANGED deleteCalls
  /\ UNCHANGED appVars
  /\ UNCHANGED editorVars

\* Cancel, the close icon and the back key of the category modal
closeModal ==
  /\ ScreenInteractive
  /\ ModalShown
  /\ showAddModal' = FALSE
  /\ showEditModal' = FALSE
  /\ editingCategory' = NoCategory
  /\ UNCHANGED <<store, nextDocId, categories, loading, categoryFormVars, saving,
                 pendingModalReopen, alertModal, screen, saveCall, loadCalls>>
  /\ UNCHANGED deleteCalls
  /\ UNCHANGED appVars
  /\ UNCHANGED editorVars

\* the bound inputs of the category modal
setName(text) ==
  /\ ScreenInteractive
  /\ ModalShown
  /\ name' = text
  /\ UNCHANGED <<icon, color, description, isActive, order, requiresVehicle, questionnaire>>
  /\ UNCHANGED <<store, nextDocId, categories, loading, showAddModal, showEditModal,
                 editingCategory, saving, pendingModalReopen, alertModal, screen,
                 saveCall, loadCalls>>
  /\ UNCHANGED deleteCalls
  /\ UNCHANGED appVars
  /\ UNCHANGED editorVars

setDescription(text) ==
  /\ ScreenInteractive
  /\ ModalShown
  /\ description' = text
  /\ UNCHANGED <<name, icon, color, isActive, order, requiresVehicle, questionnaire>>
  /\ UNCHANGED <<store, nextDocId, categories, loading, showAddModal, showEditModal,
                 editingCategory, saving, pendingModalReopen, alertModal, screen,
                 saveCall, loadCalls>>
  /\ UNCHANGED deleteCalls
  /\ UNCHANGED appVars
  /\ UNCHANGED editorVars

setIsActive(value) ==
  /\ ScreenInteractive
  /\ ModalShown
  /\ isActive' = value
  /\ UNCHANGED <<name, icon, color, description, order, requiresVehicle, questionnaire>>
  /\ UNCHANGED <<store, nextDocId, categories, loading, showAddModal, showEditModal,
                 editingCategory, saving, pendingModalReopen, alertModal, screen,
                 saveCall, loadCalls>>
  /\ UNCHANGED deleteCalls
  /\ UNCHANGED appVars
  /\ UNCHANGED editorVars

setOrder(text) ==
  /\ ScreenInteractive
  /\ ModalShown
  /\ order' = text
  /\ UNCHANGED <<name, icon, color, description, isActive, requiresVehicle, questionnaire>>
  /\ UNCHANGED <<store, nextDocId, categories, loading, showAddModal, showEditModal,
                 editingCategory, saving, pendingModalReopen, alertModal, screen,
                 saveCall, loadCalls>>
  /\ UNCHANGED deleteCalls
  /\ UNCHANGED appVars
  /\ UNCHANGED editorVars

setRequiresVehicle(value) ==
  /\ ScreenInteractive
  /\ ModalShown
  /\ requiresVehicle' = value
  /\ UNCHANGED <<name, icon, color, description, isActive, order, questionnaire>>
  /\ UNCHANGED <<store, nextDocId, categories, loading, showAddModal, showEditModal,
                 editingCategory, saving, pendingModalReopen, alertModal, screen,
                 saveCall, loadCalls>>
  /\ UNCHANGED deleteCalls
  /\ UNCHANGED appVars
  /\ UNCHANGED editorVars

setIcon(iconName) ==
  /\ ScreenInteractive
  /\ ModalShown
  /\ icon' = iconName
  /\ UNCHANGED <<name, color, description, isActive, order, requiresVehicle, questionnaire>>
  /\ UNCHANGED <<store, nextDocId, categories, loading, showAddModal, showEditModal,
                 editingCategory, saving, pendingModalReopen, alertModal, screen,
                 saveCall, loadCalls>>
  /\ UNCHANGED deleteCalls
  /\ UNCHANGED appVars
  /\ UNCHANGED editorVars

setColor(colorValue) ==
  /\ ScreenInteractive
  /\ ModalShown
  /\ color' = colorValue
  /\ UNCHANGED <<name, icon, description, isActive, order, requiresVehicle, questionnaire>>
  /\ UNCHANGED <<store, nextDocId, categories, loading, showAddModal, showEditModal,
                 editingCategory, saving, pendingModalReopen, alertModal, screen,
                 saveCall, loadCalls>>
  /\ UNCHANGED deleteCalls
  /\ UNCHANGED appVars
  /\ UNCHANGED editorVars

\* The editor screen is unmounted when the navigator leaves it: its state is
\* gone, and the next visit constructs it anew.
EditorUnmounted ==
  /\ questions' = <<>>
  /\ resetForm
  /\ alert' = NoAlert

\* The questionnaire button of the category modal: the editor screen is
\* constructed over route.params.questionnaire.
openQuestionnaireEditor ==
  /\ ScreenInteractive
  /\ ModalShown
  /\ pendingModalReopen' = IF showEditModal THEN "edit" ELSE "add"
  /\ showAddModal' = FALSE
  /\ showEditModal' = FALSE
  /\ screen' = "editor"
  /\ questions' = questionnaire
  /\ resetForm
  /\ alert' = NoAlert
  /\ UNCHANGED <<store, nextDocId, categories, loading, editingCategory,
                 categoryFormVars, saving, alertModal, saveCall, loadCalls, now>>
  /\ UNCHANGED deleteCalls
  /\ UNCHANGED appVars

\* handleSave of the editor: onSave(questions), the setQuestionnaire of the
\* category screen, then navigation.goBack()
handleSaveQuestionnaire ==
  /\ Interactive
  /\ questionnaire' = questions
  /\ screen' = "returning"
  /\ EditorUnmounted
  /\ UNCHANGED <<name, icon, color, description, isActive, order, requiresVehicle>>
  /\ UNCHANGED <<store, nextDocId, categories, loading, showAddModal, showEditModal,
                 editingCategory, saving, pendingModalReopen, alertModal, saveCall,
                 loadCalls, now>>
  /\ UNCHANGED deleteCalls
  /\ UNCHANGED appVars

\* A variant of the back key that hands the working list to the category form.
goBackCommitting ==
  /\ Interactive
  /\ questionnaire' = questions
  /\ screen' = "returning"
  /\ EditorUnmounted
  /\ UNCHANGED <<name, icon, color, description, isActive, order, requiresVehicle>>
  /\ UNCHANGED <<store, nextDocId, categories, loading, showAddModal, showEditModal,
                 editingCategory, saving, pendingModalReopen, alertModal, saveCall,
                 loadCalls, now>>
  /\ UNCHANGED deleteCalls
  /\ UNCHANGED appVars

\* the back key in the editor
goBack ==
  /\ Interactive
  /\ screen' = "returning"
  /\ EditorUnmounted
  /\ UNCHANGED <<store, nextDocId, categories, loading, showAddModal, showEditModal,
                 editingCategory, categoryFormVars, saving, pendingModalReopen,
                 alertModal, saveCall, loadCalls, now>>
  /\ UNCHANGED deleteCalls
  /\ UNCHANGED appVars

\* A variant of the focus listener that reopens the add modal whatever modal
\* the editor was opened from.
onFocusReopeningAdd ==
  /\ screen = "returning"
  /\ screen' = "categories"
  /\ showAddModal' = IF pendingModalReopen # "null" THEN TRUE ELSE showAddModal
  /\ UNCHANGED showEditModal
  /\ pendingModalReopen' = "null"
  /\ UNCHANGED <<store, nextDocId, categories, loading, editingCategory,
                 categoryFormVars, saving, alertModal, saveCall, loadCalls>>
  /\ UNCHANGED deleteCalls
  /\ UNCHANGED appVars
  /\ UNCHANGED editorVars

\* the focus listener of the category screen
onFocus ==
  /\ screen = "returning"
  /\ screen' = "categories"
  /\ showAddModal' = IF pendingModalReopen = "add" THEN TRUE ELSE showAddModal
  /\ showEditModal' = IF pendingModalReopen = "edit" THEN TRUE ELSE showEditModal
  /\ pendingModalReopen' = "null"
  /\ UNCHANGED <<store, nextDocId, categories, loading, editingCategory,
                 categoryFormVars, saving, alertModal, saveCall, loadCalls>>
  /\ UNCHANGED deleteCalls
  /\ UNCHANGED appVars
  /\ UNCHANGED editorVars

\* A variant of categoryData that hands the questionnaire over as it is, empty
\* or not.
CategoryDataKeepingEmpty ==
  [fields |->
     [name |-> Trim(name), icon |-> icon, color |-> color, isActive |-> isActive,
      order |-> ParseInt(order), requiresVehicle |-> requiresVehicle,
      questionnaire |-> questionnaire]
       @@ OptionalField("description", Trim(description), Trim(description) # EmptyText),
   undefinedKeys |-> IF Trim(description) # EmptyText THEN {} ELSE {"description"}]

\* categoryData of handleSave
CategoryData ==
  [fields |->
     [name |-> Trim(name), icon |-> icon, color |-> color, isActive |-> isActive,
      order |-> ParseInt(order), requiresVehicle |-> requiresVehicle]
       @@ OptionalField("description", Trim(description), Trim(description) # EmptyText)
       @@ OptionalField("questionnaire", questionnaire, Len(questionnaire) > 0),
   undefinedKeys |->
     (IF Trim(description) # EmptyText THEN {} ELSE {"description"})
       \cup (IF Len(questionnaire) > 0 THEN {} ELSE {"questionnaire"})]

\* categoryData of handleSave in the version of the screen without a
\* questionnaire (src/screens/AdminProvidersListScreen.tsx)
CategoryDataBasic ==
  [fields |->
     [name |-> Trim(name), icon |-> icon, color |-> color, isActive |-> isActive,
      order |-> ParseInt(order)]
       @@ OptionalField("description", Trim(description), Trim(description) # EmptyText),
   undefinedKeys |-> IF Trim(description) # EmptyText THEN {} ELSE {"description"}]

\* the call of addServiceCategory up to its await
addServiceCategory(category) ==
  [status |-> "pending", op |-> "add", id |-> 0, args |-> category,
   data |-> AddData(category)]

\* the call of updateServiceCategory up to its await
updateServiceCategory(categoryId, updates) ==
  [status |-> "pending", op |-> "update", id |-> categoryId, args |-> updates,
   data |-> UpdateData(updates)]

\* A variant of handleSave whose Save button is not disabled while a call is
\* awaited.
SaveWithButtonEnabled(categoryData) ==
  /\ ScreenInteractive
  /\ ModalShown
  /\ IF Trim(name) = EmptyText
       THEN /\ alertModal' = ShownAlert("Error", "Please enter a category name", "error")
            /\ UNCHANGED <<saving, saveCall, loading, loadCalls>>
     ELSE IF ParseInt(order) = NaN \/ ParseInt(order) < 1
       THEN /\ alertModal' = ShownAlert("Error", "Please enter a valid order number (1 or higher)", "error")
            /\ UNCHANGED <<saving, saveCall, loading, loadCalls>>
     ELSE IF showAddModal
       THEN /\ nextDocId <= MaxCategories
            /\ saving' = TRUE
            /\ saveCall' = addServiceCategory(categoryData)
            /\ UNCHANGED <<alertModal, loading, loadCalls>>
     ELSE IF editingCategory # NoCategory
       THEN /\ saving' = TRUE
            /\ saveCall' = updateServiceCategory(editingCategory.id, categoryData)
            /\ UNCHANGED <<alertModal, loading, loadCalls>>
     ELSE /\ loadCategories
          /\ saving' = FALSE
          /\ UNCHANGED <<alertModal, saveCall>>
  /\ UNCHANGED <<store, nextDocId, categories, showAddModal, showEditModal,
                 editingCategory, categoryFormVars, pendingModalReopen, screen>>
  /\ UNCHANGED deleteCalls
  /\ UNCHANGED appVars
  /\ UNCHANGED editorVars

\* handleSave up to its await, for the categoryData it builds
SaveWith(categoryData) ==
  /\ ScreenInteractive
  /\ ModalShown
  /\ ~saving
  /\ IF Trim(name) = EmptyText
       THEN /\ alertModal' = ShownAlert("Error", "Please enter a category name", "error")
            /\ UNCHANGED <<saving, saveCall, loading, loadCalls>>
     ELSE IF ParseInt(order) = NaN \/ ParseInt(order) < 1
       THEN /\ alertModal' = ShownAlert("Error", "Please enter a valid order number (1 or higher)", "error")
            /\ UNCHANGED <<saving, saveCall, loading, loadCalls>>
     ELSE IF showAddModal
       THEN /\ nextDocId <= MaxCategories
            /\ saving' = TRUE
            /\ saveCall' = addServiceCategory(categoryData)
            /\ UNCHANGED <<alertModal, loading, loadCalls>>
     ELSE IF editingCategory # NoCategory
       THEN /\ saving' = TRUE
            /\ saveCall' = updateServiceCategory(editingCategory.id, categoryData)
            /\ UNCHANGED <<alertModal, loading, loadCalls>>
     ELSE \* nothing to await: loadCategories() and the finally block
          /\ loadCategories
          /\ saving' = FALSE
          /\ UNCHANGED <<alertModal, saveCall>>
  /\ UNCHANGED <<store, nextDocId, categories, showAddModal, showEditModal,
                 editingCategory, categoryFormVars, pendingModalReopen, screen>>
  /\ UNCHANGED deleteCalls
  /\ UNCHANGED appVars
  /\ UNCHANGED editorVars

handleSave == SaveWith(CategoryData)

handleSaveBasic == SaveWith(CategoryDataBasic)

\* the store performs the add
StoreAdd ==
  /\ saveCall.status = "pending"
  /\ saveCall.op = "add"
  /\ store' = (nextDocId :> AddedDocument(saveCall.data)) @@ store
  /\ nextDocId' = nextDocId + 1
  /\ saveCall' = [saveCall EXCEPT !.status = "resolved", !.id = nextDocId]
  /\ UNCHANGED <<categories, loading, showAddModal, showEditModal, editingCategory,
                 categoryFormVars, saving, pendingModalReopen, alertModal, screen,
                 loadCalls>>
  /\ UNCHANGED deleteCalls
  /\ UNCHANGED appVars
  /\ UNCHANGED editorVars

\* the store performs the update; update() of a missing document fails
StoreUpdate ==
  /\ saveCall.status = "pending"
  /\ saveCall.op = "update"
  /\ IF saveCall.id \in DOMAIN store
       THEN /\ store' = [store EXCEPT
                           ![saveCall.id] = UpdatedDocument(@, saveCall.data)]
            /\ saveCall' = [saveCall EXCEPT !.status = "resolved"]
       ELSE /\ saveCall' = [status |-> "rejected", error |-> ServiceError("update")]
                             @@ saveCall
            /\ UNCHANGED store
  /\ UNCHANGED <<nextDocId, categories, loading, showAddModal, showEditModal,
                 editingCategory, categoryFormVars, saving, pendingModalReopen,
                 alertModal, screen, loadCalls>>
  /\ UNCHANGED deleteCalls
  /\ UNCHANGED appVars
  /\ UNCHANGED editorVars

\* the store is unreachable or denies the write
StoreWriteFails(cause) ==
  /\ saveCall.status = "pending"
  /\ cause \in StoreErrors
  /\ saveCall' = [status |-> "rejected", error |-> ServiceError(saveCall.op)] @@ saveCall
  /\ UNCHANGED <<store, nextDocId, categories, loading, showAddModal, showEditModal,
                 editingCategory, categoryFormVars, saving, pendingModalReopen,
                 alertModal, screen, loadCalls>>
  /\ UNCHANGED deleteCalls
  /\ UNCHANGED appVars
  /\ UNCHANGED editorVars

\* A variant of the resumption that closes the modal after a failed call as
\* after a successful one.
handleSaveResumeClosing ==
  /\ saveCall.status \in {"resolved", "rejected"}
  /\ alertModal' =
       IF saveCall.status = "resolved"
         THEN IF saveCall.op = "add"
                THEN ShownAlert("Success", "Category added successfully", "success")
                ELSE ShownAlert("Success", "Category updated successfully", "success")
         ELSE ShownAlert("Error", saveCall.error.message, "error")
  /\ showAddModal' = IF saveCall.op = "add" THEN FALSE ELSE showAddModal
  /\ showEditModal' = IF saveCall.op = "update" THEN FALSE ELSE showEditModal
  /\ editingCategory' = IF saveCall.op = "update" THEN NoCategory ELSE editingCategory
  /\ IF saveCall.status = "resolved"
       THEN loadCategories
       ELSE UNCHANGED <<loading, loadCalls>>
  /\ saving' = FALSE
  /\ saveCall' = NoCall
  /\ UNCHANGED <<store, nextDocId, categories, categoryFormVars, pendingModalReopen,
                 screen>>
  /\ UNCHANGED deleteCalls
  /\ UNCHANGED appVars
  /\ UNCHANGED editorVars

\* handleSave after its await
handleSaveResume ==
  /\ saveCall.status \in {"resolved", "rejected"}
  /\ IF saveCall.status = "resolved"
       THEN /\ alertModal' =
                 IF saveCall.op = "add"
                   THEN ShownAlert("Success", "Category added successfully", "success")
                   ELSE ShownAlert("Success", "Category updated successfully", "success")
            /\ showAddModal' = IF saveCall.op = "add" THEN FALSE ELSE showAddModal
            /\ showEditModal' = IF saveCall.op = "update" THEN FALSE ELSE showEditModal
            /\ editingCategory' = IF saveCall.op = "update" THEN NoCategory ELSE editingCategory
            /\ loadCategories
       ELSE /\ alertModal' = ShownAlert("Error", saveCall.error.message, "error")
            /\ UNCHANGED <<showAddModal, showEditModal, editingCategory, loading, loadCalls>>
  /\ saving' = FALSE
  /\ saveCall' = NoCall
  /\ UNCHANGED <<store, nextDocId, categories, categoryFormVars, pendingModalReopen,
                 screen>>
  /\ UNCHANGED deleteCalls
  /\ UNCHANGED appVars
  /\ UNCHANGED editorVars

\* In the runs over the category screen, the work done inside the editor
\* (its add, update and delete handlers) is taken as a whole: it leaves some
\* question list in the editor.
EditorResults == {<<>>, <<StoredSelect>>, <<StoredText>>}

EditQuestions(result) ==
  /\ Interactive
  /\ questions' = result
  /\ UNCHANGED <<editingIndex, formVars, alert, now>>
  /\ UNCHANGED categoryVars

(***************************************************************************)
(* Category details screen                                                 *)
(***************************************************************************)
\* the lists of at most n entries of S
ListsOf(S, n) == UNION {[1..k -> S] : k \in 0..n}

\* {value && ...}: a text is drawn when the key is there and the text is
\* not empty
Truthy(obj, key) == key \in DOMAIN obj /\ obj[key] # EmptyText

\* What the card of a question shows of its prompts and placeholders: the
\* English question always, the Hindi question, the English placeholder and
\* the Hindi placeholder each when it is there.
renderQuestion(q) ==
  ("question" :> q.question)
    @@ OptionalField("questionHi", Field(q, "questionHi", EmptyText), Truthy(q, "questionHi"))
    @@ OptionalField("placeholder", Field(q, "placeholder", EmptyText), Truthy(q, "placeholder"))
    @@ OptionalField("placeholderHi", Field(q, "placeholderHi", EmptyText),
                     Truthy(q, "placeholderHi"))

\* The cards of renderQuestionnaireSection; none for a category without
\* questionnaire.
renderQuestionnaireSection(category) ==
  LET list == Field(category, "questionnaire", <<>>)
  IN [i \in 1..Len(list) |-> renderQuestion(list[i])]

\* The questions a stored category can hold, as far as the cards go.
DetailsQuestions ==
  {[id |-> 0, question |-> <<"Q">>, type |-> "text", required |-> FALSE]
     @@ OptionalField("questionHi", <<"H">>, hasHi)
     @@ OptionalField("placeholder", <<"p">>, hasP)
     @@ OptionalField("placeholderHi", <<"h">>, hasPHi) :
   hasHi \in BOOLEAN, hasP \in BOOLEAN, hasPHi \in BOOLEAN}

\* A press on a category of the list: navigation.navigate to the details
\* screen, which renders route.params.category.
openDetails(category) ==
  /\ detailsCategory' = category
  /\ rendered' = renderQuestionnaireSection(category)
  /\ UNCHANGED language
  /\ UNCHANGED <<approvalsVars, loginVars, categoryScreenVars, screen, editorVars>>

\* The language switcher: setLanguage of the store; the screens that read
\* the store render again.
setLanguage(value) ==
  /\ language' = value
  /\ rendered' = renderQuestionnaireSection(detailsCategory)
  /\ UNCHANGED detailsCategory
  /\ UNCHANGED <<approvalsVars, loginVars, categoryScreenVars, screen, editorVars>>

(***************************************************************************)
(* A second operator on the category screen of another device              *)
(***************************************************************************)
\* categoryData of handleSave, for the form values of another instance of
\* the screen
CategoryDataOf(form) ==
  [fields |->
     [name |-> Trim(form.name), icon |-> form.icon, color |-> form.color,
      isActive |-> form.isActive, order |-> ParseInt(form.order),
      requiresVehicle |-> form.requiresVehicle]
       @@ OptionalField("description", Trim(form.description),
                        Trim(form.description) # EmptyText)
       @@ OptionalField("questionnaire", form.questionnaire, Len(form.questionnaire) > 0),
   undefinedKeys |->
     (IF Trim(form.description) # EmptyText THEN {} ELSE {"description"})
       \cup (IF Len(form.questionnaire) > 0 THEN {} ELSE {"questionnaire"})]

\* handleEdit of the other instance: the form it loads from a list item
LoadedForm(category) ==
  [name |-> category.name, icon |-> category.icon, color |-> category.color,
   description |-> Field(category, "description", EmptyText),
   isActive |-> category.isActive, order |-> ToText(category.order),
   requiresVehicle |-> Field(category, "requiresVehicle", FALSE),
   questionnaire |-> Field(category, "questionnaire", <<>>)]

\* The other operator saves the edit form of the category: handleSave and
\* updateServiceCategory of that instance, at the moment the store performs
\* its update.
PeerUpdate(categoryId, form) ==
  /\ categoryId \in DOMAIN store
  /\ store' = [store EXCEPT
                 ![categoryId] = UpdatedDocument(@, UpdateData(CategoryDataOf(form)))]
  /\ UNCHANGED <<nextDocId, categories, loading, showAddModal, showEditModal,
                 editingCategory, categoryFormVars, saving, pendingModalReopen,
                 alertModal, screen, saveCall, loadCalls>>
  /\ UNCHANGED deleteCalls
  /\ UNCHANGED appVars
  /\ UNCHANGED editorVars

(***************************************************************************)
(* Provider approvals screen                                               *)
(***************************************************************************)
\* Number of providers in a snapshot.
MaxProviders == 2

FILTERS == {"all", "pending", "approved", "rejected"}

\* provider.approved as a condition: a missing flag is undefined
IsApproved(provider) == "approved" \in DOMAIN provider /\ provider.approved

HasApprovalStatus(provider) == "approvalStatus" \in DOMAIN provider

\* provider.approvalStatus || (provider.approved ? 'approved' : 'pending')
StatusOf(provider) ==
  IF HasApprovalStatus(provider) THEN provider.approvalStatus
  ELSE IF IsApproved(provider) THEN "approved"
  ELSE "pending"

\* the predicate of filteredProviders, for a filter
MatchesFilter(provider, f) ==
  \/ f = "all"
  \/ StatusOf(provider) = f
  \/ (~HasApprovalStatus(provider) /\ ~IsApproved(provider) /\ f = "pending")

IsListedPending(provider) == MatchesFilter(provider, "pending")
IsListedApproved(provider) == MatchesFilter(provider, "approved")
IsListedRejected(provider) == MatchesFilter(provider, "rejected")
IsListedAll(provider) == MatchesFilter(provider, "all")

\* providers.filter(...) under a filter
ListedUnder(f) ==
  IF f = "pending" THEN SelectSeq(providers, IsListedPending)
  ELSE IF f = "approved" THEN SelectSeq(providers, IsListedApproved)
  ELSE IF f = "rejected" THEN SelectSeq(providers, IsListedRejected)
  ELSE SelectSeq(providers, IsListedAll)

filteredProviders == ListedUnder(filter)

IsCountedPending(provider) == ~HasApprovalStatus(provider) /\ ~IsApproved(provider)

IsCountedApproved(provider) ==
  \/ (HasApprovalStatus(provider) /\ provider.approvalStatus = "approved")
  \/ IsApproved(provider)

IsCountedRejected(provider) ==
  HasApprovalStatus(provider) /\ provider.approvalStatus = "rejected"

pendingCount == Len(SelectSeq(providers, IsCountedPending))

approvedCount == Len(SelectSeq(providers, IsCountedApproved))

rejectedCount == Len(SelectSeq(providers, IsCountedRejected))

\* The documents of the providers collection, as far as the approval goes:
\* approvalStatus and approved are both optional.
ProviderDocs ==
  {OptionalField("approvalStatus", status, status # "none")
     @@ OptionalField("approved", flag = "true", flag # "none") :
   status \in {"none", "pending", "approved", "rejected"},
   flag \in {"none", "true", "false"}}

\* snapshot.docs.map(doc => ({id: doc.id, ...doc.data()}))
Snapshots ==
  {[i \in 1..Len(docs) |-> ("id" :> i) @@ docs[i]] : docs \in ListsOf(ProviderDocs, MaxProviders)}

\* the snapshot listener of the providers collection
onSnapshot(providersList) ==
  /\ providers' = providersList
  /\ UNCHANGED filter
  /\ UNCHANGED <<detailsVars, loginVars, categoryScreenVars, screen, editorVars>>

\* a press on a filter tab
setFilter(f) ==
  /\ filter' = f
  /\ UNCHANGED providers
  /\ UNCHANGED <<detailsVars, loginVars, categoryScreenVars, screen, editorVars>>

(***************************************************************************)
(* Admin login screen: Google sign-in                                      *)
(***************************************************************************)
SERVICE_ACCOUNT_EMAIL == "firebase-adminsdk-fbsvc@home-services-1ea69.iam.gserviceaccount.com"

ADMIN_EMAILS == {"jobforsandeep2025@gmail.com", SERVICE_ACCOUNT_EMAIL}

\* The emails of the Google accounts that sign in: the listed
\* administrator, as typed and as Google may hold it, a visitor, and an
\* account that gives no email.
GoogleEmails ==
  {"jobforsandeep2025@gmail.com", "JobForSandeep2025@gmail.com", "visitor@example.com", ""}

\* email.toLowerCase(), for the emails above
toLowerCase(email) ==
  IF email = "JobForSandeep2025@gmail.com" THEN "jobforsandeep2025@gmail.com" ELSE email

\* the account id behind an email
UserIdOf(email) ==
  IF toLowerCase(email) = "jobforsandeep2025@gmail.com" THEN 1
  ELSE IF email = "visitor@example.com" THEN 2
  ELSE 3

\* where('email', '==', email.toLowerCase()): is there such a document
UserFound(email) == toLowerCase(email) \in DOMAIN users

\* verifyAdminAccess(email), with its query answered
verifyAdminAccess(email) ==
  \/ toLowerCase(email) \in ADMIN_EMAILS
  \/ (UserFound(email) /\ users[toLowerCase(email)].role = "admin")

\* .set({role: 'admin'}, {merge: true}) on the document of an email
WithAdminRole(email) ==
  [users EXCEPT ![toLowerCase(email)] = [@ EXCEPT !.role = "admin"]]

\* the Google button of the login screen, up to await signInWithGoogle()
handleGoogleSignIn ==
  /\ screen = "AdminLogin"
  /\ login.pc = "idle"
  /\ login' = [pc |-> "signInWithGoogle"]
  /\ UNCHANGED <<users, currentUser>>
  /\ UNCHANGED <<detailsVars, approvalsVars, categoryScreenVars, screen, editorVars>>

\* signInWithGoogle() resolves with the user of a Google account; an account
\* seen for the first time may get its users document, with the role of a
\* customer.  Without an email the verification is skipped.
signInResolves(email, created) ==
  /\ login.pc = "signInWithGoogle"
  /\ users' = IF created /\ email # "" /\ ~UserFound(email)
                THEN (toLowerCase(email) :> [id |-> UserIdOf(email), role |-> "customer"])
                       @@ users
                ELSE users
  /\ login' = [pc |-> IF email # "" THEN "verifyAdminAccess" ELSE "updateUserRole",
               user |-> [id |-> UserIdOf(email), email |-> email,
                         role |-> IF toLowerCase(email) \in DOMAIN users'
                                    THEN users'[toLowerCase(email)].role
                                    ELSE "customer"],
               hasAdminAccess |-> FALSE]
  /\ UNCHANGED currentUser
  /\ UNCHANGED <<detailsVars, approvalsVars, categoryScreenVars, screen, editorVars>>

\* signInWithGoogle() rejects, or the user cancels: the catch block
signInRejects ==
  /\ login.pc = "signInWithGoogle"
  /\ login' = [pc |-> "idle"]
  /\ UNCHANGED <<users, currentUser>>
  /\ UNCHANGED <<detailsVars, approvalsVars, categoryScreenVars, screen, editorVars>>

\* await verifyAdminAccess(user.email) resolves
verifyAdminAccessResolves ==
  /\ login.pc = "verifyAdminAccess"
  /\ login' = [login EXCEPT
                 !.hasAdminAccess = verifyAdminAccess(login.user.email),
                 !.pc = IF verifyAdminAccess(login.user.email)
                          THEN "updateUserRole" ELSE "grantAdminAccess"]
  /\ UNCHANGED <<users, currentUser>>
  /\ UNCHANGED <<detailsVars, approvalsVars, categoryScreenVars, screen, editorVars>>

\* await grantAdminAccess(user.email) resolves, or throws 'User not found'
\* and the handler shows 'Access Denied' and returns
grantAdminAccessResolves ==
  /\ login.pc = "grantAdminAccess"
  /\ IF UserFound(login.user.email)
       THEN /\ users' = WithAdminRole(login.user.email)
            /\ login' = [login EXCEPT !.pc = "updateUserRole"]
       ELSE /\ login' = [pc |-> "idle"]
            /\ UNCHANGED users
  /\ UNCHANGED currentUser
  /\ UNCHANGED <<detailsVars, approvalsVars, categoryScreenVars, screen, editorVars>>

\* grantAdminAccess fails at the store: 'Access Denied' as well
grantAdminAccessRejects ==
  /\ login.pc = "grantAdminAccess"
  /\ login' = [pc |-> "idle"]
  /\ UNCHANGED <<users, currentUser>>
  /\ UNCHANGED <<detailsVars, approvalsVars, categoryScreenVars, screen, editorVars>>

\* The rest of the handler: updateUserRole(user.id, 'admin') when the user's
\* role is not 'admin' (a failure is logged and the login goes on), then
\* setCurrentUser(userWithRole) and navigation.reset to AdminMain.
enterAdminMain(updated) ==
  /\ login.pc = "updateUserRole"
  /\ users' = IF /\ updated
                 /\ login.user.role # "admin"
                 /\ login.user.email # ""
                 /\ UserFound(login.user.email)
                THEN WithAdminRole(login.user.email)
                ELSE users
  /\ currentUser' = [login.user EXCEPT !.role = "admin"]
  /\ screen' = "AdminMain"
  /\ login' = [pc |-> "idle"]
  /\ UNCHANGED <<detailsVars, approvalsVars, categoryScreenVars, editorVars>>

(***************************************************************************)
(* Specifications                                                          *)
(***************************************************************************)
\* A stored category written before questionnaires had a requiresVehicle flag.
StoredCategory ==
  [name |-> <<"P">>, icon |-> "plumbing", color |-> "#3498db", isActive |-> TRUE,
   order |-> 1, questionnaire |-> <<StoredSelect>>, createdAt |-> InitialNow, updatedAt |-> InitialNow]

EmptyStore == [id \in {} |-> StoredCategory]

\* The category screen while the editor, opened from the add modal, is on top.
CategoryScreenBehindEditor ==
  /\ store = EmptyStore
  /\ nextDocId = 1
  /\ categories = <<>>
  /\ loading = FALSE
  /\ showAddModal = FALSE
  /\ showEditModal = FALSE
  /\ editingCategory = NoCategory
  /\ name = EmptyText
  /\ icon = "handyman"
  /\ color = "#FF9500"
  /\ description = EmptyText
  /\ isActive = TRUE
  /\ order = <<"1">>
  /\ requiresVehicle = FALSE
  /\ questionnaire = questions
  /\ saving = FALSE
  /\ pendingModalReopen = "add"
  /\ alertModal = HiddenAlert
  /\ screen = "editor"
  /\ saveCall = NoCall
  /\ loadCalls = <<>>
  /\ deleteCalls = <<>>
  /\ OtherScreensIdle

\* The questionnaire editor, from its construction, over whole question lists.
EditorInit ==
  /\ \E q \in RouteQuestionnaires : EditorConstructed(q)
  /\ CategoryScreenBehindEditor

EditorNext ==
  \/ CancelEdit
  \/ \E index \in 1..MaxQuestions : handleEdit(index)
  \/ \E index \in 1..MaxQuestions : handleDelete(index)
  \/ CancelDelete
  \/ ConfirmDelete
  \/ DismissError
  \/ handleAddOrUpdateQuestion
  \/ handleAddOption
  \/ \E index \in 1..MaxOptions : handleRemoveOption(index)
  \/ \E text \in ListQuestionInputs : setQuestion(text)
  \/ \E t \in ListTypeInputs : setType(t)
  \/ \E text \in ListOptionInputs : setOptionInput(text)
  \/ handleSaveQuestionnaire
  \/ goBack
  \/ onFocus
  \/ Tick

SpecEditor == EditorInit /\ [][EditorNext]_vars

\* The same runs with the passing of time: the millisecond clock does not
\* stand still for ever while it can advance.
SpecEditorLive == EditorInit /\ [][EditorNext]_vars /\ WF_vars(Tick)

\* The form of the editor, from its construction over an empty questionnaire
\* up to the first question it saves.
FormInit ==
  /\ EditorConstructed(<<>>)
  /\ CategoryScreenBehindEditor

FormNext ==
  \/ questions = <<>> /\ DismissError
  \/ questions = <<>> /\ handleAddOrUpdateQuestion
  \/ questions = <<>> /\ handleAddOption
  \/ questions = <<>> /\ handleAddOptionHi
  \/ questions = <<>> /\ \E index \in 1..MaxOptions : handleRemoveOption(index)
  \/ questions = <<>> /\ \E index \in 1..MaxOptions : handleRemoveOptionHi(index)
  \/ questions = <<>> /\ \E text \in QuestionInputs : setQuestion(text)
  \/ questions = <<>> /\ \E text \in QuestionHiInputs : setQuestionHi(text)
  \/ questions = <<>> /\ \E t \in QUESTION_TYPES : setType(t)
  \/ questions = <<>> /\ \E value \in BOOLEAN : setRequired(value)
  \/ questions = <<>> /\ \E text \in PlaceholderInputs : setPlaceholder(text)
  \/ questions = <<>> /\ \E text \in PlaceholderHiInputs : setPlaceholderHi(text)
  \/ questions = <<>> /\ \E text \in OptionInputs : setOptionInput(text)
  \/ questions = <<>> /\ \E text \in OptionHiInputs : setOptionInputHi(text)

SpecForm == FormInit /\ [][FormNext]_vars

\* The category screen, the service and the store, from the mount of the
\* screen.
CategoryInit ==
  /\ store \in {EmptyStore, (1 :> StoredCategory)}
  /\ CategoryScreenMounted
  /\ EditorConstructed(<<>>)

CategoryNext ==
  \/ \E i \in 1..2 : StoreFetch(i)
  \/ \E i \in 1..2 : StoreFetchFails(i)
  \/ \E i \in 1..2 : loadCategoriesResume(i)
  \/ hideAlert
  \/ handleAdd
  \/ \E i \in 1..MaxCategories : handleEditCategory(i)
  \/ closeModal
  \/ \E text \in {<<"P">>} : setName(text)
  \/ openQuestionnaireEditor
  \/ \E result \in EditorResults : EditQuestions(result)
  \/ handleSaveQuestionnaire
  \/ goBack
  \/ onFocus
  \/ handleSave
  \/ handleSaveBasic
  \/ StoreAdd
  \/ StoreUpdate
  \/ \E cause \in StoreErrors : StoreWriteFails(cause)
  \/ handleSaveResume

SpecCategory == CategoryInit /\ [][CategoryNext]_vars

\* The delete prompts of both screens: the category screen over a stored
\* category, its delete button and the store's answers, and the editor
\* opened from the edit modal with its add and delete handlers.
DeleteInit ==
  /\ store = (1 :> StoredCategory)
  /\ CategoryScreenMounted
  /\ EditorConstructed(<<>>)

DeleteNext ==
  \/ \E i \in 1..(MaxDeletes + 1) : StoreFetch(i)
  \/ \E i \in 1..(MaxDeletes + 1) : loadCategoriesResume(i)
  \/ hideAlert
  \/ \E i \in 1..MaxCategories : handleDeleteCategory(i)
  \/ confirmDeleteCategory
  \/ \E i \in 1..MaxDeletes : StoreDelete(i)
  \/ \E i \in 1..MaxDeletes : \E cause \in StoreErrors : StoreDeleteFails(i, cause)
  \/ \E i \in 1..MaxDeletes : handleDeleteResume(i)
  \/ \E i \in 1..MaxCategories : handleEditCategory(i)
  \/ closeModal
  \/ openQuestionnaireEditor
  \/ \E text \in ListQuestionInputs : setQuestion(text)
  \/ handleAddOrUpdateQuestion
  \/ DismissError
  \/ \E index \in 1..MaxQuestions : handleDelete(index)
  \/ CancelDelete
  \/ ConfirmDelete
  \/ handleSaveQuestionnaire
  \/ goBack
  \/ onFocus
  \/ Tick

SpecDelete == DeleteInit /\ [][DeleteNext]_vars

\* The stored categories the details screen is opened on: a category of the
\* list with a questionnaire of text questions, or none.
DetailsCategories ==
  {("id" :> 1) @@ (IF list = <<>>
                     THEN Without(StoredCategory, {"questionnaire"})
                     ELSE [StoredCategory EXCEPT !.questionnaire = list]) :
   list \in ListsOf(DetailsQuestions, MaxQuestions)}

\* The details screen, opened on a category, and the language switcher.
DetailsInit ==
  /\ language = "en"
  /\ detailsCategory \in DetailsCategories
  /\ rendered = renderQuestionnaireSection(detailsCategory)
  /\ ApprovalsUnmounted
  /\ LoginUnmounted
  /\ CategoryScreenUnmounted
  /\ screen = "details"
  /\ EditorConstructed(<<>>)

DetailsNext ==
  \/ \E category \in DetailsCategories : openDetails(category)
  \/ \E value \in {"en", "hi"} : setLanguage(value)

SpecDetails == DetailsInit /\ [][DetailsNext]_vars

\* A second stored category, under another name.
StoredRepairs ==
  [StoredCategory EXCEPT !.name = <<"R">>, !.icon = "build", !.order = 2]

\* The names typed into the category form.
NameInputs == {StoredCategory.name, StoredRepairs.name}

\* The category screen over two stored categories of different names, with
\* the edit form, its name box and its updates.
NamesInit ==
  /\ store = (1 :> StoredCategory) @@ (2 :> StoredRepairs)
  /\ CategoryScreenMounted
  /\ EditorConstructed(<<>>)

NamesNext ==
  \/ \E i \in 1..2 : StoreFetch(i)
  \/ \E i \in 1..2 : loadCategoriesResume(i)
  \/ hideAlert
  \/ \E i \in 1..2 : handleEditCategory(i)
  \/ closeModal
  \/ \E text \in NameInputs : setName(text)
  \/ handleSave
  \/ StoreUpdate
  \/ handleSaveResume

SpecNames == NamesInit /\ [][NamesNext]_vars

\* The descriptions typed into the category form.
DescriptionInputs == {EmptyText, <<"d">>}

\* The forms the other operator saves: loaded from the stored category, with
\* a description typed or not, and the questionnaire kept or emptied.
PeerForms ==
  {[LoadedForm(("id" :> 1) @@ StoredCategory) EXCEPT
      !.description = text, !.questionnaire = list] :
   text \in DescriptionInputs, list \in {<<>>, <<StoredSelect>>}}

\* Two operators on one stored category: this screen with its edit form,
\* and the updates of the other operator.
PeersInit ==
  /\ store = (1 :> StoredCategory)
  /\ CategoryScreenMounted
  /\ EditorConstructed(<<>>)

PeersNext ==
  \/ \E i \in 1..2 : StoreFetch(i)
  \/ \E i \in 1..2 : loadCategoriesResume(i)
  \/ hideAlert
  \/ \E i \in 1..MaxCategories : handleEditCategory(i)
  \/ closeModal
  \/ \E text \in DescriptionInputs : setDescription(text)
  \/ handleSave
  \/ StoreUpdate
  \/ handleSaveResume
  \/ \E form \in PeerForms : PeerUpdate(1, form)

SpecPeers == PeersInit /\ [][PeersNext]_vars

\* The category screen with this operator as the only writer and a store
\* that answers every request: the reloads at mount, after a save and after
\* a delete.
ReloadInit ==
  /\ store = (1 :> StoredCategory)
  /\ CategoryScreenMounted
  /\ EditorConstructed(<<>>)

ReloadNext ==
  \/ \E i \in 1..(MaxDeletes + 1) : StoreFetch(i)
  \/ \E i \in 1..(MaxDeletes + 1) : loadCategoriesResume(i)
  \/ hideAlert
  \/ \E i \in 1..MaxCategories : handleDeleteCategory(i)
  \/ confirmDeleteCategory
  \/ \E i \in 1..MaxDeletes : StoreDelete(i)
  \/ \E i \in 1..MaxDeletes : handleDeleteResume(i)
  \/ \E i \in 1..MaxCategories : handleEditCategory(i)
  \/ closeModal
  \/ handleSave
  \/ StoreUpdate
  \/ handleSaveResume

SpecReload == ReloadInit /\ [][ReloadNext]_vars

\* The approvals screen from its mount: snapshots of the providers
\* collection and the filter tabs.
ApprovalsInit ==
  /\ ApprovalsUnmounted
  /\ DetailsUnmounted
  /\ LoginUnmounted
  /\ CategoryScreenUnmounted
  /\ screen = "approvals"
  /\ EditorConstructed(<<>>)

ApprovalsNext ==
  \/ \E providersList \in Snapshots : onSnapshot(providersList)
  \/ \E f \in FILTERS : setFilter(f)

SpecApprovals == ApprovalsInit /\ [][ApprovalsNext]_vars

\* The users collections the login starts from: the listed administrator
\* and the visitor each have no document, a customer's or an admin's.
UserCollections ==
  {[email \in emails |-> [id |-> UserIdOf(email), role |-> roles[email]]] :
   emails \in SUBSET {"jobforsandeep2025@gmail.com", "visitor@example.com"},
   roles \in [{"jobforsandeep2025@gmail.com", "visitor@example.com"}
               -> {"customer", "admin"}]}

\* The login screen with nobody signed in.
LoginInit ==
  /\ users \in UserCollections
  /\ login = [pc |-> "idle"]
  /\ currentUser = NoUser
  /\ screen = "AdminLogin"
  /\ DetailsUnmounted
  /\ ApprovalsUnmounted
  /\ CategoryScreenUnmounted
  /\ EditorConstructed(<<>>)

LoginNext ==
  \/ handleGoogleSignIn
  \/ \E email \in GoogleEmails : \E created \in BOOLEAN : signInResolves(email, created)
  \/ signInRejects
  \/ verifyAdminAccessResolves
  \/ grantAdminAccessResolves
  \/ grantAdminAccessRejects
  \/ \E updated \in BOOLEAN : enterAdminMain(updated)

SpecLogin == LoginInit /\ [][LoginNext]_vars

(***************************************************************************)
(* Properties of the service and the category screen (SpecCategory)        *)
(***************************************************************************)
\* the step in which the store performs the pending update
UpdatePerformed ==
  /\ saveCall.status = "pending"
  /\ saveCall.op = "update"
  /\ saveCall'.status = "resolved"

\* the step in which the store performs the pending add
AddPerformed ==
  /\ saveCall.status = "pending"
  /\ saveCall.op = "add"
  /\ saveCall'.status = "resolved"

\* the questionnaire of the patch is written as undefined, or is an empty list
ClearsQuestionnaire(updates) ==
  \/ "questionnaire" \in updates.undefinedKeys
  \/ /\ "questionnaire" \in DOMAIN updates.fields
     /\ updates.fields["questionnaire"] = <<>>

\* the patches of the category form with the questionnaire written as
\* undefined, and with an empty questionnaire
ClearingPatches ==
  LET basic == CategoryDataBasic
  IN { [basic EXCEPT !.undefinedKeys = @ \cup {"questionnaire"}],
       [basic EXCEPT !.fields = ("questionnaire" :> <<>>) @@ @] }

\* C1: an update whose patch has an undefined or an empty questionnaire
\* leaves the stored document without a questionnaire field, whatever was
\* stored before, both for the update the screen issues and for each such
\* patch applied to each stored document.
C1_UpdateClearsQuestionnaire ==
  [][ /\ (UpdatePerformed /\ ClearsQuestionnaire(saveCall.args))
         => "questionnaire" \notin DOMAIN store'[saveCall.id]
      /\ \A id \in DOMAIN store : \A updates \in ClearingPatches :
           "questionnaire" \notin DOMAIN UpdatedDocument(store[id], UpdateData(updates))
    ]_vars

\* C1: the store has performed an update with an undefined questionnaire on
\* a category that had one, and the document has none now.
C1_Witness ==
  /\ saveCall.status = "resolved"
  /\ saveCall.op = "update"
  /\ "questionnaire" \in saveCall.args.undefinedKeys
  /\ "questionnaire" \in DOMAIN editingCategory
  /\ "questionnaire" \notin DOMAIN store[saveCall.id]

\* the questionnaire field of two documents is the same: absent in both, or
\* present in both with the same list
SameQuestionnaire(before, after) ==
  /\ ("questionnaire" \in DOMAIN before) <=> ("questionnaire" \in DOMAIN after)
  /\ "questionnaire" \in DOMAIN before => after["questionnaire"] = before["questionnaire"]

\* C2: an update whose patch carries no questionnaire key leaves the stored
\* questionnaire exactly as it was.
C2_NoKeyLeavesQuestionnaire ==
  [][ ( /\ UpdatePerformed
        /\ "questionnaire" \notin DOMAIN saveCall.args.fields
        /\ "questionnaire" \notin saveCall.args.undefinedKeys )
      => SameQuestionnaire(store[saveCall.id], store'[saveCall.id])
    ]_vars

C4_UpdateReplacesQuestionnaire ==
  [][ ( /\ UpdatePerformed
        /\ "questionnaire" \in DOMAIN saveCall.args.fields
        /\ saveCall.args.fields["questionnaire"] # <<>>
        /\ "questionnaire" \in DOMAIN store[saveCall.id]
        /\ store[saveCall.id]["questionnaire"] # <<>>
        /\ store[saveCall.id]["questionnaire"] # saveCall.args.fields["questionnaire"] )
      => /\ "questionnaire" \in DOMAIN store'[saveCall.id]
         /\ store'[saveCall.id]["questionnaire"] = saveCall.args.fields["questionnaire"]
    ]_vars

\* C4: the store has performed an update with a non-empty questionnaire on a
\* category that was listed with a different non-empty one, and the document
\* holds the new list.
C4_Witness ==
  /\ saveCall.status = "resolved"
  /\ saveCall.op = "update"
  /\ "questionnaire" \in DOMAIN saveCall.args.fields
  /\ saveCall.args.fields["questionnaire"] # <<>>
  /\ "questionnaire" \in DOMAIN editingCategory
  /\ editingCategory["questionnaire"] # <<>>
  /\ editingCategory["questionnaire"] # saveCall.args.fields["questionnaire"]
  /\ store[saveCall.id]["questionnaire"] = saveCall.args.fields["questionnaire"]

(***************************************************************************)
(* Properties of the questionnaire editor over question lists (SpecEditor) *)
(***************************************************************************)
\* a question of the list has options exactly as its type asks for
OptionsMatchType(q) ==
  IF q.type \in {"select", "multiselect"}
    THEN "options" \in DOMAIN q /\ Len(q.options) >= 1
    ELSE "options" \notin DOMAIN q

\* C5: before and after every step of the editor, each single-choice or
\* multiple-choice question of the list has at least one English option and
\* each question of another type has no options field; a submit of the form
\* with such a type and no English option is rejected with an error and
\* leaves the list as it is.
C5_OptionsMatchType ==
  [][ /\ \A i \in 1..Len(questions) : OptionsMatchType(questions[i])
      /\ \A i \in 1..Len(questions') : OptionsMatchType(questions'[i])
      /\ ( /\ handleAddOrUpdateQuestion
           /\ type \in {"select", "multiselect"}
           /\ Len(options) = 0 )
         => /\ questions' = questions
            /\ alert'.kind = "error"
    ]_vars

\* C5: a submit without English options has just been rejected while the list
\* holds a multiple-choice question.
C5_Witness ==
  /\ alert.kind = "error"
  /\ alert.message = "Please add at least one option in English"
  /\ \E i \in 1..Len(questions) : questions[i].type = "multiselect"

\* C10: a submit that succeeds while an entry is being edited keeps the
\* length of the list, keeps the id of the entry at the edited position and
\* leaves every other entry as it was.
C10_EditReplacesInPlace ==
  [][ ( /\ handleAddOrUpdateQuestion
        /\ editingIndex # NULL
        /\ alert' = NoAlert )
      => /\ Len(questions') = Len(questions)
         /\ questions'[editingIndex].id = questions[editingIndex].id
         /\ \A i \in 1..Len(questions) :
              i # editingIndex => questions'[i] = questions[i]
    ]_vars

\* C10: the question that came with the id 0 as a single-choice question is
\* a multiple-choice question now, at its position and under its id, and the
\* question added after it is still behind it.
C10_Witness ==
  /\ Len(questions) = 2
  /\ questions[1].id = StoredSelect.id
  /\ questions[1].type = "multiselect"
  /\ questions[2].id # StoredSelect.id
  /\ editingIndex = NULL

(***************************************************************************)
(* Properties of the form of the questionnaire editor (SpecForm)           *)
(***************************************************************************)
\* the form holds Hindi options and no Hindi question
HindiOptionsWithoutQuestion ==
  /\ Len(optionsHi) > 0
  /\ Trim(questionHi) = EmptyText

C7_HindiOptionsOnlyWithQuestion ==
  \A i \in 1..Len(questions) :
    "optionsHi" \in DOMAIN questions[i]
      => /\ "options" \in DOMAIN questions[i]
         /\ "questionHi" \in DOMAIN questions[i]

\* C8: a submit of a single-choice or multiple-choice form with a Hindi
\* question and with Hindi options, fewer than the English ones, succeeds and
\* saves exactly the Hindi options of the form.
C8_ShorterHindiOptionsSaved ==
  [][ ( /\ handleAddOrUpdateQuestion
        /\ type \in {"select", "multiselect"}
        /\ Trim(question) # EmptyText
        /\ Trim(questionHi) # EmptyText
        /\ Len(optionsHi) > 0
        /\ Len(optionsHi) < Len(options) )
      => /\ alert' = NoAlert
         /\ Len(questions') = Len(questions) + 1
         /\ "optionsHi" \in DOMAIN questions'[Len(questions')]
         /\ questions'[Len(questions')].optionsHi = optionsHi
    ]_vars

\* C8: the saved question has a Hindi question and fewer Hindi options than
\* English ones.
C8_Witness ==
  /\ Len(questions) = 1
  /\ "questionHi" \in DOMAIN questions[1]
  /\ "optionsHi" \in DOMAIN questions[1]
  /\ "options" \in DOMAIN questions[1]
  /\ Len(questions[1].optionsHi) > 0
  /\ Len(questions[1].optionsHi) < Len(questions[1].options)

\* list after the removal of its entry at index: one shorter, the entries
\* below index in place, the entries above index one position down
RemovedAt(before, after, index) ==
  /\ Len(after) = Len(before) - 1
  /\ \A j \in 1..Len(after) :
       after[j] = IF j < index THEN before[j] ELSE before[j + 1]

\* C9: the removal of the English option at an index removes the Hindi option
\* at that index if there is one; the Hindi options above it move down by
\* one, those below it stay, and without a Hindi option at the index the
\* Hindi options stay as they are.
C9_RemoveKeepsPairs ==
  [][ \A index \in 1..Len(options) :
        handleRemoveOption(index)
          => /\ RemovedAt(options, options', index)
             /\ IF index <= Len(optionsHi)
                  THEN RemovedAt(optionsHi, optionsHi', index)
                  ELSE optionsHi' = optionsHi
    ]_vars

\* C9: of two English options and their two Hindi options the form holds the
\* second pair alone, after the removal of the first English option.
C9_Witness ==
  /\ IsOptionType(type)
  /\ Len(options) = 1
  /\ options[1] = <<LETTERS[2]>>
  /\ optionsHi = <<<<LETTERS_HI[2]>>>>
  /\ optionInput = EmptyText
  /\ optionInputHi = EmptyText

(***************************************************************************)
(* Properties of the question ids (SpecEditor, SpecEditorLive)             *)
(***************************************************************************)
\* the ids of the questions of a list
IdsOf(list) == {list[i].id : i \in 1..Len(list)}

\* the ids the editor can hand out, and the id of the stored questions
PossibleIds == 0..MaxClock

\* C11: the questions of the working list have pairwise different ids.
C11_IdsDistinct ==
  \A i, j \in 1..Len(questions) : i # j => questions[i].id # questions[j].id

\* C12: an id that has been in the working list and is no longer in it never
\* comes back: no question created later receives the id of a deleted one.
C12_IdNeverReused ==
  \A id \in PossibleIds :
    [](id \in IdsOf(questions)
         => [](id \notin IdsOf(questions) => [](id \notin IdsOf(questions))))

(***************************************************************************)
(* Properties of the validations of the editor                             *)
(***************************************************************************)
\* the form fails one of the three validations of the submit
FormInvalid ==
  \/ Trim(question) = EmptyText
  \/ type \in {"select", "multiselect"} /\ Len(options) = 0
  \/ /\ type \in {"select", "multiselect"}
     /\ Trim(questionHi) # EmptyText
     /\ Len(optionsHi) = 0

\* C13: a submit of a form that fails a validation shows an error and changes
\* nothing else: the question list, the fields of the form and the editing
\* index stay, and so do the category form and the store.
C13_RejectedSubmitChangesNothing ==
  [][ (handleAddOrUpdateQuestion /\ FormInvalid)
      => /\ alert'.kind = "error"
         /\ UNCHANGED <<questions, editingIndex, formVars>>
         /\ UNCHANGED categoryVars
    ]_vars

\* C13: the submit of an entry under edit has been rejected for its missing
\* Hindi options, and the form still holds the entry.
C13_Witness ==
  /\ alert.kind = "error"
  /\ alert.message = "Please add Hindi options if Hindi question is provided"
  /\ editingIndex # NULL
  /\ Trim(question) # EmptyText
  /\ Len(options) > 0

\* C14: a submit of a single-choice or multiple-choice form with a Hindi
\* question and no Hindi option is rejected, and each such question of the
\* list that has a Hindi question has at least one Hindi option.
C14_HindiQuestionNeedsHindiOptions ==
  [][ /\ ( /\ handleAddOrUpdateQuestion
           /\ type \in {"select", "multiselect"}
           /\ Trim(questionHi) # EmptyText
           /\ Len(optionsHi) = 0 )
         => /\ alert'.kind = "error"
            /\ questions' = questions
      /\ \A i \in 1..Len(questions') :
           ( /\ questions'[i].type \in {"select", "multiselect"}
             /\ "questionHi" \in DOMAIN questions'[i] )
           => /\ "optionsHi" \in DOMAIN questions'[i]
              /\ Len(questions'[i].optionsHi) >= 1
    ]_vars

\* C14: a form with English options and a Hindi question has just been
\* rejected for its missing Hindi options.
C14_Witness ==
  /\ alert.kind = "error"
  /\ alert.message = "Please add Hindi options if Hindi question is provided"
  /\ Len(options) > 0
  /\ questions = <<>>

\* the entries of a list are pairwise different
Distinct(list) == \A i, j \in 1..Len(list) : i # j => list[i] # list[j]

\* C15: the add of an English option whose trimmed label is in the list
\* already is rejected and leaves the list as it is; the English options of
\* the form, and of each question saved from it, are pairwise different.
C15_OptionsDistinct ==
  [][ /\ (handleAddOption /\ Includes(options, Trim(optionInput)))
         => /\ alert'.kind = "error"
            /\ options' = options
      /\ Distinct(options')
      /\ \A i \in 1..Len(questions') :
           "options" \in DOMAIN questions'[i] => Distinct(questions'[i].options)
    ]_vars

\* C15: the label " A" has just been rejected for the option "A", in a list
\* that holds "a" as well.
C15_Witness ==
  /\ alert.kind = "error"
  /\ alert.message = "This option already exists"
  /\ optionInput = <<SPACE, "A">>
  /\ Includes(options, <<"A">>)
  /\ Includes(options, <<"a">>)

(***************************************************************************)
(* Properties of the editor towards the category form                      *)
(***************************************************************************)
\* C17: no step taken inside the editor other than its Save changes the
\* questionnaire of the category form, and none changes the store or issues
\* a call to it; Save hands over the working list, and the back key leaves
\* the questionnaire of the category form as it was.
C17_EditorWorksOnCopy ==
  [][ /\ (screen = "editor" /\ ~handleSaveQuestionnaire)
         => questionnaire' = questionnaire
      /\ screen = "editor"
         => /\ store' = store
            /\ saveCall' = saveCall
      /\ handleSaveQuestionnaire => questionnaire' = questions
      /\ goBack => questionnaire' = questionnaire
    ]_vars

\* C17: the editor holds two questions while the category form it was opened
\* from still holds none.
C17_Witness ==
  /\ screen = "editor"
  /\ Len(questions) = 2
  /\ questionnaire = <<>>

\* C18: Save in the editor hands the working list to the category form in
\* the step in which the editor is left; until the category screen has the
\* focus again the questionnaire and the mode to reopen stay, and the focus
\* reopens the modal of the mode the editor was opened from, with that
\* questionnaire.
C18_SaveReturnsToSameMode ==
  [][ /\ handleSaveQuestionnaire
         => /\ questionnaire' = questions
            /\ screen' = "returning"
            /\ pendingModalReopen' = pendingModalReopen
      /\ screen \in {"editor", "returning"}
         => pendingModalReopen \in {"add", "edit"}
      /\ (screen = "editor" /\ screen' = "editor")
         => pendingModalReopen' = pendingModalReopen
      /\ screen = "returning"
         => /\ questionnaire' = questionnaire
            /\ screen' \in {"returning", "categories"}
      /\ (screen = "returning" /\ screen' = "categories")
         => /\ pendingModalReopen = "add" => showAddModal'
            /\ pendingModalReopen = "edit" => showEditModal'
            /\ pendingModalReopen' = "null"
    ]_vars

\* C18: the edit modal is open again after a Save in the editor, with a
\* questionnaire other than that of the category it edits.
C18_Witness ==
  /\ screen = "categories"
  /\ showEditModal
  /\ ~showAddModal
  /\ editingCategory # NoCategory
  /\ questionnaire # Field(editingCategory, "questionnaire", <<>>)
  /\ questionnaire # <<>>

(***************************************************************************)
(* Properties of the save of the category form (SpecCategory)              *)
(***************************************************************************)
\* C19: when the add or update that handleSave awaits has failed, the
\* resumption shows an error and leaves the modal flags, the category under
\* edit and every field of the form as they are; no call is awaited any more
\* and the Save button is enabled again.
C19_FailedSaveKeepsForm ==
  [][ (saveCall.status = "rejected" /\ saveCall' = NoCall)
      => /\ alertModal'.visible
         /\ alertModal'.type = "error"
         /\ UNCHANGED <<showAddModal, showEditModal, editingCategory>>
         /\ UNCHANGED categoryFormVars
         /\ UNCHANGED <<store, categories>>
         /\ ~saving'
    ]_vars

\* C19: the failure of an update is on show over the edit modal, which still
\* holds the category and a questionnaire other than the stored one, and the
\* Save button is enabled.
C19_Witness ==
  /\ alertModal.visible
  /\ alertModal.message = "Failed to update service category"
  /\ showEditModal
  /\ editingCategory # NoCategory
  /\ questionnaire # Field(editingCategory, "questionnaire", <<>>)
  /\ ~saving
  /\ saveCall = NoCall

\* C20: a call to add or update is issued only while none is outstanding and
\* the Save button is enabled, and the button is disabled as long as a call
\* is outstanding, whatever modal is open meanwhile.
C20_NoOverlappingSaves ==
  [][ /\ (saveCall' # saveCall /\ saveCall'.status = "pending")
         => /\ saveCall = NoCall
            /\ ~saving
      /\ saveCall # NoCall => saving
      /\ saveCall' # NoCall => saving'
    ]_vars

\* C20: an update is outstanding and the Save button disabled while the add
\* modal, opened after the edit modal was closed, is ready to be saved.
C20_Witness ==
  /\ saveCall.status = "pending"
  /\ saveCall.op = "update"
  /\ saving
  /\ showAddModal
  /\ ScreenInteractive
  /\ Trim(name) # EmptyText

(***************************************************************************)
(* The delete prompts (SpecDelete)                                         *)
(***************************************************************************)
\* a step of the editor that takes a question out of the list
QuestionRemoved ==
  /\ screen = "editor"
  /\ screen' = "editor"
  /\ Len(questions') < Len(questions)

\* a step that hands a delete to the service
DeleteSent == Len(deleteCalls') > Len(deleteCalls)

\* a step in which a prompt of either screen goes away with Cancel
PromptCancelled ==
  \/ /\ alert.kind = "confirmDelete"
     /\ alert' = NoAlert
     /\ questions' = questions
  \/ /\ alertModal.visible
     /\ alertModal.type = "confirm"
     /\ ~alertModal'.visible
     /\ ~DeleteSent

\* C16: a question leaves the editor's list only in the step that answers
\* the delete prompt with Delete, and it is the question the prompt was
\* opened for; a category delete is handed to the service only in the step
\* that answers the category prompt with Delete, for the category the
\* prompt names; the store loses a category only by performing such a
\* delete; cancelling a prompt, like every step taken while it waits,
\* leaves the question list, the store and the deletes in flight as they are.
C16_DeletesNeedConfirmation ==
  [][ /\ QuestionRemoved
        => /\ alert.kind = "confirmDelete"
           /\ questions' = RemoveAt(questions, alert.index)
      /\ DeleteSent
        => /\ alertModal.visible
           /\ alertModal.type = "confirm"
           /\ deleteCalls' = Append(deleteCalls,
                                    [status |-> "pending", id |-> alertModal.category])
      /\ store' # store
        => \E i \in 1..Len(deleteCalls) :
             /\ deleteCalls[i].status = "pending"
             /\ DOMAIN store' = DOMAIN store \ {deleteCalls[i].id}
             /\ \A id \in DOMAIN store' : store'[id] = store[id]
      /\ PromptCancelled
        => /\ questions' = questions
           /\ store' = store
           /\ deleteCalls' = deleteCalls
           /\ categories' = categories
      /\ (alert.kind = "confirmDelete" /\ alert' = alert) => questions' = questions
    ]_vars

\* Both prompts were answered with Delete: the edit modal is back from the
\* editor with a questionnaire emptied there, and the store has performed
\* the delete of the category.
C16_Witness ==
  /\ showEditModal
  /\ questionnaire = <<>>
  /\ DOMAIN store = {}

(***************************************************************************)
(* Pairing of the English and the Hindi options (SpecForm)                 *)
(***************************************************************************)
\* C25: the form never holds more Hindi options than English options, and
\* no saved question has more Hindi options than options.
C25_HindiOptionsNotLonger ==
  /\ Len(optionsHi) <= Len(options)
  /\ \A i \in 1..Len(questions) :
       "optionsHi" \in DOMAIN questions[i]
         => /\ "options" \in DOMAIN questions[i]
            /\ Len(questions[i].optionsHi) <= Len(questions[i].options)

\* C26: the removal of the Hindi option at an index leaves every remaining
\* Hindi option at the index it had, next to the same English option.
C26_HindiRemovalKeepsIndexes ==
  [][ \A index \in 1..Len(optionsHi) :
        handleRemoveOptionHi(index)
          => /\ options' = options
             /\ \A j \in 1..Len(optionsHi) :
                  (j # index /\ j <= Len(options))
                    => /\ j <= Len(optionsHi')
                       /\ optionsHi'[j] = optionsHi[j]
    ]_vars

(***************************************************************************)
(* The entry under edit (SpecEditor)                                       *)
(***************************************************************************)
\* C28: whenever an editing index is set it is a position of the question
\* list.
C28_EditingIndexValid ==
  editingIndex # NULL => editingIndex \in 1..Len(questions)

(***************************************************************************)
(* Failures of the store (SpecCategory)                                    *)
(***************************************************************************)
\* C21: when the store rejects the write of an add, an update or a delete,
\* the call is rejected with an error that carries the store's reason as its
\* cause; a rejected call is not sent again by itself; and the screen
\* reports a rejected call as an error, never as a success.
C21_StoreErrorsCarryCause ==
  [][ /\ \A cause \in StoreErrors :
           StoreWriteFails(cause)
             => /\ saveCall'.status = "rejected"
                /\ "cause" \in DOMAIN saveCall'.error
                /\ saveCall'.error.cause = cause
      /\ \A cause \in StoreErrors : \A i \in 1..Len(deleteCalls) :
           StoreDeleteFails(i, cause)
             => /\ deleteCalls'[i].status = "rejected"
                /\ "cause" \in DOMAIN deleteCalls'[i].error
                /\ deleteCalls'[i].error.cause = cause
      /\ saveCall.status = "rejected"
           => /\ saveCall' \in {saveCall, NoCall}
              /\ store' = store
              /\ saveCall' = NoCall => alertModal'.type = "error"
    ]_vars

(***************************************************************************)
(* Rendering of a questionnaire (SpecDetails)                              *)
(***************************************************************************)
\* the Hindi text of a key is drawn exactly when the language is Hindi and
\* the question has it; the English text is drawn in every other case
DrawnByLanguage(q, card, key, keyHi) ==
  /\ keyHi \in DOMAIN card <=> (language = "hi" /\ Truthy(q, keyHi))
  /\ (Truthy(q, key) /\ ~(language = "hi" /\ Truthy(q, keyHi))) => key \in DOMAIN card

\* C22: each card of the questionnaire shows the Hindi question only when
\* the language is Hindi and the question has one, never when the language
\* is English, and the English question in every other case; the same for
\* the placeholder and the Hindi placeholder.
C22_HindiOnlyInHindi ==
  \A i \in 1..Len(rendered) :
    LET q == detailsCategory.questionnaire[i] IN
      /\ DrawnByLanguage(q, rendered[i], "question", "questionHi")
      /\ DrawnByLanguage(q, rendered[i], "placeholder", "placeholderHi")

(***************************************************************************)
(* Names of the stored categories (SpecNames)                              *)
(***************************************************************************)
\* C23: no two stored categories have the same name.
C23_NamesUnique ==
  \A i, j \in DOMAIN store : i # j => store[i].name # store[j].name

(***************************************************************************)
(* Two operators on one category (SpecPeers)                               *)
(***************************************************************************)
\* the fields of a category that the form edits
EditableFields ==
  {"name", "icon", "color", "description", "isActive", "order", "requiresVehicle",
   "questionnaire"}

\* the document holds, in its editable fields, the values of the categoryData
\* and nothing else: a field the categoryData left undefined is not stored
HoldsValuesOf(doc, categoryData) ==
  \A key \in EditableFields :
    IF key \in DOMAIN categoryData.fields
      THEN key \in DOMAIN doc /\ doc[key] = categoryData.fields[key]
      ELSE key \notin DOMAIN doc

\* C27: after each update of a stored category, by this operator or by the
\* other, the editable fields of the stored category are the values of that
\* update, whatever an earlier update had written; a description or
\* questionnaire it cleared is gone.
C27_LastWriteWins ==
  [][ /\ UpdatePerformed
        => HoldsValuesOf(store'[saveCall.id], saveCall.args)
      /\ \A form \in PeerForms :
           PeerUpdate(1, form) => HoldsValuesOf(store'[1], CategoryDataOf(form))
    ]_vars

(***************************************************************************)
(* Reloads of the category list (SpecReload)                               *)
(***************************************************************************)
\* no fetch, save or delete is under way
NoRequestOutstanding ==
  /\ loadCalls = <<>>
  /\ deleteCalls = <<>>
  /\ saveCall = NoCall

\* C29: when no request is outstanding, the list on the screen is what the
\* store holds and the loading flag is off.
C29_ListSettlesOnStore ==
  NoRequestOutstanding
    => /\ categories = fetchAllServiceCategories
       /\ ~loading

(***************************************************************************)
(* Counts of the filter tabs (SpecApprovals)                               *)
(***************************************************************************)
\* C30: the count on the pending tab is the number of providers listed
\* under the pending filter, and likewise for approved and rejected.
C30_CountsMatchLists ==
  /\ pendingCount = Len(ListedUnder("pending"))
  /\ approvedCount = Len(ListedUnder("approved"))
  /\ rejectedCount = Len(ListedUnder("rejected"))

(***************************************************************************)
(* Admin access through the Google sign-in (SpecLogin)                     *)
(***************************************************************************)
\* the email has the role admin in the users collection
IsAdminIn(collection, email) ==
  email \in DOMAIN collection /\ collection[email].role = "admin"

\* C24: the sign-in gives the role admin to no user whose email is outside
\* ADMIN_EMAILS, and a user whose email is outside ADMIN_EMAILS and who did
\* not have the role admin when signing in does not reach AdminMain.
C24_OnlyListedEmailsBecomeAdmin ==
  [][ /\ \A email \in DOMAIN users' :
           (IsAdminIn(users', email) /\ ~IsAdminIn(users, email))
             => email \in ADMIN_EMAILS
      /\ (screen = "AdminLogin" /\ screen' = "AdminMain")
           => \/ toLowerCase(login.user.email) \in ADMIN_EMAILS
              \/ login.hasAdminAccess
    ]_vars

====
